---- MODULE Spec2Model ----
(***************************************************************************)
(* The structured comparison engine of athina/evals/function/functions.py: *)
(* json_eval and the helpers it calls (_load_json, _get_schema,            *)
(* _apply_validation, _validate_equals, _validate_cosine_similarity,       *)
(* _validate_llm_similarity), together with the shared OpenAiApiKey store  *)
(* and the OPENAI_API_KEY environment value they read.                     *)
(*                                                                         *)
(* Every thread runs json_eval calls one after another; pc[p] is the       *)
(* thread's position inside the call.  The capabilities the engine         *)
(* consumes (embedding comparator, chat completion) answer                 *)
(* nondeterministically from small sets.  trace[p] records, in order, the  *)
(* helper and capability calls the current call has made, results[p] the   *)
(* outcome of every validation entry that ran to completion.               *)
(***************************************************************************)
EXTENDS Integers, Sequences, FiniteSets, TLC

\* Longest validation plan a call is given.
MaxValidations == 2

Threads == {1, 2}
MainThread == 1

(***************************************************************************)
(* JSON documents: objects over the single key "a"; None is the value a    *)
(* path that does not resolve extracts to.                                 *)
(***************************************************************************)
None == 0
Values == {1, 2}
Docs == [a : {None} \cup Values]
Unset == [a |-> -1]

\* Raw texts, as token sequences.
TextA1 == <<"{", "\"a\"", ":", "1", "}">>
TextBad == <<"{", "a", ":", "1", "}">>
SchemaTextReq == <<"{", "\n", "\t", "\"required\"", ":", "[", "\"a\"", "]", "\n", "}">>
SchemaTextBad == <<"{", "\"required\"", ":">>

\* Schemas: None, the empty object {}, or an object with required keys.
NoneSchema == [is_none |-> TRUE, empty |-> TRUE, required |-> {}]
EmptySchema == [is_none |-> FALSE, empty |-> TRUE, required |-> {}]
ObjectSchema == [is_none |-> FALSE, empty |-> FALSE, required |-> {}]
RequireASchema == [is_none |-> FALSE, empty |-> FALSE, required |-> {"a"}]

\* str.replace("\n", "").replace("\t", "")
StripWs(t) == SelectSeq(t, LAMBDA c : c \notin {"\n", "\t"})

\* json.loads: whitespace between tokens is insignificant; anything that is
\* not one of the well-formed texts raises JSONDecodeError.
JsonLoads(t) ==
    CASE StripWs(t) = TextA1 -> [ok |-> TRUE, value |-> [a |-> 1]]
      [] StripWs(t) = StripWs(SchemaTextReq) -> [ok |-> TRUE, value |-> RequireASchema]
      [] OTHER -> [ok |-> FALSE, value |-> Unset]

\* Arguments as the caller passes them: a dict or a str.
DictInput(d) == [value |-> d, is_str |-> FALSE, text |-> <<>>]
TextInput(t) == [value |-> Unset, is_str |-> TRUE, text |-> t]
DocInputs == {DictInput(d) : d \in Docs} \cup {TextInput(TextA1), TextInput(TextBad)}

SchemaDict(s) == [value |-> s, is_str |-> FALSE, text |-> <<>>]
SchemaText(t) == [value |-> NoneSchema, is_str |-> TRUE, text |-> t]
SchemaInputs ==
    {SchemaDict(s) : s \in {NoneSchema, EmptySchema, ObjectSchema, RequireASchema}}
        \cup {SchemaText(SchemaTextReq), SchemaText(SchemaTextBad)}

\* Credentials; the empty string stands for None / not set.
NoKey == ""
EntryKeys == {NoKey, "sk-entry"}
StoreKeys == {NoKey, "sk-store"}
EnvKeys == {NoKey, "sk-env"}

\* Similarity scores and thresholds, in tenths.
DefaultPassThreshold == 8
NoThreshold == -1
CosineScores == {7, 8, 9}

\* Entries of a validation plan.
Entry(f, t, k) ==
    [validating_function |-> f, json_path |-> "a", pass_threshold |-> t, open_ai_api_key |-> k]
Validations ==
    {Entry("Equals", NoThreshold, NoKey),
     Entry("Cosine Similarity", NoThreshold, NoKey),
     Entry("Cosine Similarity", 9, NoKey),
     Entry("LLM Similarity", NoThreshold, NoKey),
     Entry("LLM Similarity", NoThreshold, "sk-entry"),
     Entry("Levenshtein", NoThreshold, NoKey)}
Plans == UNION {[1..n -> Validations] : n \in 0..MaxValidations}

\* Answers of the chat-completion capability.
Resp(n, hr, r, he) == [is_none |-> n, has_result |-> hr, result |-> r, has_explanation |-> he]
NoResponse == Resp(TRUE, FALSE, "-", FALSE)
Responses ==
    {Resp(FALSE, TRUE, "Pass", TRUE),
     Resp(FALSE, TRUE, "Fail", TRUE),
     Resp(FALSE, TRUE, "Maybe", TRUE),
     Resp(FALSE, FALSE, "", TRUE),
     Resp(FALSE, TRUE, "Pass", FALSE),
     Resp(TRUE, FALSE, "", FALSE)}

\* Verdicts.
Verdict(r, s) == [result |-> r, reason |-> s]
NoVerdict == Verdict(FALSE, "")

NoArgs ==
    [actual_json |-> DictInput(Unset), expected_json |-> DictInput(Unset),
     schema |-> SchemaDict(NoneSchema), validations |-> <<>>]

\* The calls explored: every combination of documents and schema with a plan
\* of at most one entry, and every plan up to MaxValidations entries with
\* documents that pass the schema (the plan is not read before they do).
FrontInputs ==
    [actual_json : DocInputs, expected_json : DocInputs, schema : SchemaInputs,
     validations : {v \in Plans : Len(v) <= 1}]
PlanInputs ==
    [actual_json : {DictInput([a |-> 1])},
     expected_json : {DictInput([a |-> 1]), DictInput([a |-> 2])},
     schema : {SchemaDict(RequireASchema)},
     validations : Plans]
CallInputs == FrontInputs \cup PlanInputs

VARIABLES
    keyStore,          \* OpenAiApiKey's configured key
    envKey,            \* os.environ["OPENAI_API_KEY"]
    pc,                \* position of each thread
    args,              \* the arguments of the current call, as the caller holds them
    actual_json,       \* locals of json_eval
    expected_json,
    schema,
    idx,               \* position of the loop over validations (1-based)
    open_ai_api_key,   \* local of _validate_llm_similarity
    service_key,       \* key the OpenAiService instance was built with
    response,          \* local of _validate_llm_similarity
    results,           \* outcome of every entry that ran to completion
    trace,             \* helper and capability calls made by the current call
    verdict,           \* returned Verdict
    raised,            \* exception in flight / raised to the caller
    m_pc,              \* position of the registry operation being called
    m_call,            \* the operation called and its arguments
    m_out,             \* the Verdict the operation returned
    m_probes,          \* HEAD requests the operation has issued
    m_kwargs,          \* names of the unrecognized keyword options passed to the call
    m_raised,          \* exception the call raised to its caller
    s_pc,              \* position of the step executor being run
    s_call,            \* the step and the input execute was called with
    s_body,            \* the rendered body: self.body (ApiCall), prepared_body (Search)
    s_attempt,         \* loop variable of execute
    s_requests,        \* requests execute has issued, with their outcomes
    s_result,          \* the value execute returned
    s_raised           \* exception execute raised to its caller

jsonVars == <<keyStore, envKey, pc, args, actual_json, expected_json, schema, idx,
              open_ai_api_key, service_key, response, results, trace, verdict, raised>>
opVars == <<m_pc, m_call, m_out, m_probes, m_kwargs, m_raised>>
stepVars == <<s_pc, s_call, s_body, s_attempt, s_requests, s_result, s_raised>>
vars == <<keyStore, envKey, pc, args, actual_json, expected_json, schema, idx,
          open_ai_api_key, service_key, response, results, trace, verdict, raised,
          m_pc, m_call, m_out, m_probes, m_kwargs, m_raised,
          s_pc, s_call, s_body, s_attempt, s_requests, s_result, s_raised>>

Ev(e, i) == [i |-> i, ev |-> e]

\* A registry operation's arguments: the first parameter (a str or a list of
\* str), the text and the case_sensitive flag.  Texts are sequences of
\* characters.
StrParam(t) == [is_str |-> TRUE, text |-> t, list |-> <<>>]
ListParam(l) == [is_str |-> FALSE, text |-> <<>>, list |-> l]
OpCall(n, x, t, cs) == [text |-> t, name |-> n, param |-> x, case_sensitive |-> cs]
NoCall == OpCall("", StrParam(<<>>), <<>>, FALSE)
OpVerdict(r, s) == [result |-> r, reason |-> s]
NoOut == OpVerdict(FALSE, <<>>)
NoResult == [response |-> NoResponse, passed |-> FALSE, score |-> -1]

\* A step executor's configuration and input: self.body is None or a text,
\* self.headers and self.params are None, an empty dictionary or one with an
\* entry.  execute returns None, or a dictionary with status and data.
NoBody == [is_none |-> TRUE, text |-> <<>>]
StepCall(step, input, body, headers, params) ==
    [step |-> step, input |-> input, body |-> body, headers |-> headers, params |-> params]
NoStepCall == StepCall("", "None", NoBody, "None", "None")
StepResult(status, parsed, data) ==
    [is_none |-> FALSE, status |-> status, parsed |-> parsed, data |-> data]
ReturnsNone == [is_none |-> TRUE, status |-> "", parsed |-> FALSE, data |-> <<>>]

Init ==
    /\ keyStore \in StoreKeys
    /\ envKey \in EnvKeys
    /\ pc = [p \in Threads |-> "idle"]
    /\ args = [p \in Threads |-> NoArgs]
    /\ actual_json = [p \in Threads |-> Unset]
    /\ expected_json = [p \in Threads |-> Unset]
    /\ schema = [p \in Threads |-> NoneSchema]
    /\ idx = [p \in Threads |-> 1]
    /\ open_ai_api_key = [p \in Threads |-> NoKey]
    /\ service_key = [p \in Threads |-> NoKey]
    /\ response = [p \in Threads |-> NoResponse]
    /\ results = [p \in Threads |-> <<>>]
    /\ trace = [p \in Threads |-> <<>>]
    /\ verdict = [p \in Threads |-> NoVerdict]
    /\ raised = [p \in Threads |-> ""]
    /\ m_pc = "idle"
    /\ m_call = NoCall
    /\ m_out = NoOut
    /\ m_probes = <<>>
    /\ m_kwargs = {}
    /\ m_raised = ""
    /\ s_pc = "idle"
    /\ s_call = NoStepCall
    /\ s_body = NoBody
    /\ s_attempt = 0
    /\ s_requests = <<>>
    /\ s_result = ReturnsNone
    /\ s_raised = ""

(***************************************************************************)
(* Helpers of json_eval, as pure operators.                                *)
(***************************************************************************)

load_json_lenient(json_data) ==
    IF json_data.is_str
    THEN IF JsonLoads(json_data.text).ok
         THEN JsonLoads(json_data.text)
         ELSE [ok |-> TRUE, value |-> [a |-> None]]
    ELSE [ok |-> TRUE, value |-> json_data.value]

\* _load_json: a str goes through json.loads (which may raise), anything
\* else is returned as it is.
load_json(json_data) ==
    IF json_data.is_str
    THEN JsonLoads(json_data.text)
    ELSE [ok |-> TRUE, value |-> json_data.value]

\* _get_schema: a non-empty str is stripped of newlines and tabs and parsed
\* (which may raise); None or a dict is returned as it is.
get_schema(kwargs_schema) ==
    IF kwargs_schema.is_str /\ kwargs_schema.text # <<>>
    THEN JsonLoads(StripWs(kwargs_schema.text))
    ELSE [ok |-> TRUE, value |-> kwargs_schema.value]

schema_missing_never(s) == FALSE

\* "if not schema": None and the empty dict are both falsy.
schema_missing(s) == s.is_none \/ s.empty

\* athina.helpers.json.validate_json: structural validation, boolean.
validate_json(json_data, s) == \A k \in s.required : json_data[k] # None

both_valid_actual_only(a, e, s) == validate_json(a, s)

\* "_validate_json_with_schema(actual) and _validate_json_with_schema(expected)"
both_valid(a, e, s) == validate_json(a, s) /\ validate_json(e, s)

\* athina.helpers.json.extract_json_path: the value at the path, None when
\* the path does not resolve.
extract_json_path(json_data, json_path) ==
    IF json_path \in DOMAIN json_data THEN json_data[json_path] ELSE None

\* _validate_equals
validate_equals(actual_value, expected_value) == actual_value = expected_value

validate_cosine_similarity_strict(cosine_similarity, validation) ==
    LET threshold == IF validation.pass_threshold = NoThreshold
                     THEN DefaultPassThreshold
                     ELSE validation.pass_threshold
    IN  cosine_similarity > threshold

\* _validate_cosine_similarity, given the comparator's score.
validate_cosine_similarity(cosine_similarity, validation) ==
    LET threshold == IF validation.pass_threshold = NoThreshold
                     THEN DefaultPassThreshold
                     ELSE validation.pass_threshold
    IN  ~(cosine_similarity < threshold)

resolve_key_env_first(validation, store, env) ==
    IF validation.open_ai_api_key # NoKey THEN validation.open_ai_api_key
    ELSE IF env # NoKey THEN env
    ELSE store

\* validation.get("open_ai_api_key") or OpenAiApiKey.get_key()
\*     or os.environ.get("OPENAI_API_KEY")
resolve_key(validation, store, env) ==
    IF validation.open_ai_api_key # NoKey THEN validation.open_ai_api_key
    ELSE IF store # NoKey THEN store
    ELSE env

\* The try block of _validate_llm_similarity: a response that cannot be
\* subscripted, or lacks "result" or "explanation", raises inside the try and
\* gives False; a result equal to "Fail" gives False; anything else True.
llm_judgment(r) ==
    IF r.is_none \/ ~r.has_result \/ ~r.has_explanation
    THEN FALSE
    ELSE r.result # "Fail"

\* OpenAiService(): the service is built with the configured key.
OpenAiService(store) == store

Supported == {"Equals", "Cosine Similarity", "LLM Similarity"}

\* The else branch of _apply_validation.
unsupported_result == FALSE

loop_continues_always(passed) == TRUE

\* "if not _apply_validation(...): return ..." inside the loop of json_eval
loop_continues(passed) == passed

(***************************************************************************)
(* Steps of a json_eval call on thread p.                                  *)
(***************************************************************************)

Set(f, p, v) == [f EXCEPT ![p] = v]
Emit(p, evs) == trace' = [trace EXCEPT ![p] = @ \o evs]

\* json_eval(actual_json, expected_json, schema=..., validations=...)
Call(p, in) ==
    /\ pc[p] = "idle"
    /\ args' = Set(args, p, in)
    /\ pc' = Set(pc, p, "load_actual")
    /\ UNCHANGED <<keyStore, envKey, actual_json, expected_json, schema, idx,
                   open_ai_api_key, service_key, response, results, trace, verdict, raised>>
    /\ UNCHANGED <<opVars, stepVars>>

LoadActual_InPlace(p) ==
    /\ pc[p] = "load_actual"
    /\ LET r == load_json(args[p].actual_json)
       IN  /\ Emit(p, <<Ev("load_json", 0)>>)
           /\ IF r.ok
              THEN /\ actual_json' = Set(actual_json, p, r.value)
                   /\ args' = [args EXCEPT ![p].actual_json = DictInput(r.value)]
                   /\ pc' = Set(pc, p, "load_expected")
                   /\ UNCHANGED raised
              ELSE /\ raised' = Set(raised, p, "JSONDecodeError")
                   /\ pc' = Set(pc, p, "except")
                   /\ UNCHANGED <<actual_json, args>>
    /\ UNCHANGED <<keyStore, envKey, expected_json, schema, idx,
                   open_ai_api_key, service_key, response, results, verdict>>
    /\ UNCHANGED <<opVars, stepVars>>

\* actual_json = _load_json(actual_json)
LoadActual(p) ==
    /\ pc[p] = "load_actual"
    /\ LET r == load_json(args[p].actual_json)
       IN  /\ Emit(p, <<Ev("load_json", 0)>>)
           /\ IF r.ok
              THEN /\ actual_json' = Set(actual_json, p, r.value)
                   /\ pc' = Set(pc, p, "load_expected")
                   /\ UNCHANGED raised
              ELSE /\ raised' = Set(raised, p, "JSONDecodeError")
                   /\ pc' = Set(pc, p, "except")
                   /\ UNCHANGED actual_json
    /\ UNCHANGED <<keyStore, envKey, args, expected_json, schema, idx,
                   open_ai_api_key, service_key, response, results, verdict>>
    /\ UNCHANGED <<opVars, stepVars>>

\* expected_json = _load_json(expected_json)
LoadExpected(p) ==
    /\ pc[p] = "load_expected"
    /\ LET r == load_json(args[p].expected_json)
       IN  /\ Emit(p, <<Ev("load_json", 0)>>)
           /\ IF r.ok
              THEN /\ expected_json' = Set(expected_json, p, r.value)
                   /\ pc' = Set(pc, p, "get_schema")
                   /\ UNCHANGED raised
              ELSE /\ raised' = Set(raised, p, "JSONDecodeError")
                   /\ pc' = Set(pc, p, "except")
                   /\ UNCHANGED expected_json
    /\ UNCHANGED <<keyStore, envKey, args, actual_json, schema, idx,
                   open_ai_api_key, service_key, response, results, verdict>>
    /\ UNCHANGED <<opVars, stepVars>>

\* schema = _get_schema(kwargs)
GetSchema(p) ==
    /\ pc[p] = "get_schema"
    /\ LET r == get_schema(args[p].schema)
       IN  /\ Emit(p, <<Ev("get_schema", 0)>>)
           /\ IF r.ok
              THEN /\ schema' = Set(schema, p, r.value)
                   /\ pc' = Set(pc, p, "check_schema")
                   /\ UNCHANGED raised
              ELSE /\ raised' = Set(raised, p, "JSONDecodeError")
                   /\ pc' = Set(pc, p, "except")
                   /\ UNCHANGED schema
    /\ UNCHANGED <<keyStore, envKey, args, actual_json, expected_json, idx,
                   open_ai_api_key, service_key, response, results, verdict>>
    /\ UNCHANGED <<opVars, stepVars>>

\* if not schema: return {"result": False, "reason": "Schema not provided"}
CheckSchema(p) ==
    /\ pc[p] = "check_schema"
    /\ IF schema_missing(schema[p])
       THEN /\ verdict' = Set(verdict, p, Verdict(FALSE, "Schema not provided"))
            /\ pc' = Set(pc, p, "done")
       ELSE /\ pc' = Set(pc, p, "validate_schema")
            /\ UNCHANGED verdict
    /\ UNCHANGED <<keyStore, envKey, args, actual_json, expected_json, schema, idx,
                   open_ai_api_key, service_key, response, results, trace, raised>>
    /\ UNCHANGED <<opVars, stepVars>>

\* if not (validate(actual) and validate(expected)): return "Schema validation failed"
\* The second document is validated only when the first one passed.
ValidateSchema(p) ==
    /\ pc[p] = "validate_schema"
    /\ Emit(p, IF validate_json(actual_json[p], schema[p])
               THEN <<Ev("validate_json", 0), Ev("validate_json", 0)>>
               ELSE <<Ev("validate_json", 0)>>)
    /\ IF both_valid(actual_json[p], expected_json[p], schema[p])
       THEN /\ pc' = Set(pc, p, "loop")
            /\ UNCHANGED verdict
       ELSE /\ verdict' = Set(verdict, p, Verdict(FALSE, "Schema validation failed"))
            /\ pc' = Set(pc, p, "done")
    /\ UNCHANGED <<keyStore, envKey, args, actual_json, expected_json, schema, idx,
                   open_ai_api_key, service_key, response, results, raised>>
    /\ UNCHANGED <<opVars, stepVars>>

\* for validation in validations: ...  /  return "Json eval passed"
LoopValidations(p) ==
    /\ pc[p] = "loop"
    /\ IF idx[p] > Len(args[p].validations)
       THEN /\ verdict' = Set(verdict, p, Verdict(TRUE, "Json eval passed"))
            /\ pc' = Set(pc, p, "done")
       ELSE /\ pc' = Set(pc, p, "apply")
            /\ UNCHANGED verdict
    /\ UNCHANGED <<keyStore, envKey, args, actual_json, expected_json, schema, idx,
                   open_ai_api_key, service_key, response, results, trace, raised>>
    /\ UNCHANGED <<opVars, stepVars>>

\* The entry the loop is at, and the two extractions _apply_validation makes.
Validation(p) == args[p].validations[idx[p]]
Extractions(p) == <<Ev("extract_json_path", idx[p]), Ev("extract_json_path", idx[p])>>

\* The entry at idx returned `passed`: the loop goes on or json_eval returns.
Conclude(p, passed, res, evs) ==
    /\ results' = Set(results, p, Append(results[p], res))
    /\ Emit(p, evs)
    /\ IF loop_continues(passed)
       THEN /\ idx' = Set(idx, p, idx[p] + 1)
            /\ pc' = Set(pc, p, "loop")
            /\ UNCHANGED verdict
       ELSE /\ verdict' = Set(verdict, p, Verdict(FALSE, "Validation failed"))
            /\ pc' = Set(pc, p, "done")
            /\ UNCHANGED idx

\* _apply_validation, Equals branch
ApplyEquals(p) ==
    /\ pc[p] = "apply"
    /\ Validation(p).validating_function = "Equals"
    /\ LET passed == validate_equals(extract_json_path(actual_json[p], Validation(p).json_path),
                                     extract_json_path(expected_json[p], Validation(p).json_path))
       IN  Conclude(p, passed, [NoResult EXCEPT !.passed = passed],
                    Extractions(p) \o <<Ev("Equals", idx[p])>>
                        \o (IF passed THEN <<>> ELSE <<Ev("logger.error", idx[p])>>))
    /\ UNCHANGED <<keyStore, envKey, args, actual_json, expected_json, schema,
                   open_ai_api_key, service_key, response, raised>>
    /\ UNCHANGED <<opVars, stepVars>>

\* _apply_validation, Cosine Similarity branch; the comparator answers score
ApplyCosineSimilarity(p) ==
    /\ pc[p] = "apply"
    /\ Validation(p).validating_function = "Cosine Similarity"
    /\ \E score \in CosineScores :
         LET passed == validate_cosine_similarity(score, Validation(p))
         IN  Conclude(p, passed, [NoResult EXCEPT !.passed = passed, !.score = score],
                      Extractions(p) \o <<Ev("Cosine Similarity", idx[p]), Ev("compare", idx[p])>>
                          \o (IF passed THEN <<>> ELSE <<Ev("logger.error", idx[p])>>))
    /\ UNCHANGED <<keyStore, envKey, args, actual_json, expected_json, schema,
                   open_ai_api_key, service_key, response, raised>>
    /\ UNCHANGED <<opVars, stepVars>>

\* _apply_validation, else branch: the strategy name is not supported
ApplyUnsupported(p) ==
    /\ pc[p] = "apply"
    /\ Validation(p).validating_function \notin Supported
    /\ Conclude(p, unsupported_result, [NoResult EXCEPT !.passed = unsupported_result],
                Extractions(p) \o <<Ev("unsupported", idx[p]), Ev("logger.error", idx[p])>>)
    /\ UNCHANGED <<keyStore, envKey, args, actual_json, expected_json, schema,
                   open_ai_api_key, service_key, response, raised>>
    /\ UNCHANGED <<opVars, stepVars>>

\* _apply_validation, LLM Similarity branch: enter _validate_llm_similarity
ApplyLlmSimilarity(p) ==
    /\ pc[p] = "apply"
    /\ Validation(p).validating_function = "LLM Similarity"
    /\ Emit(p, Extractions(p) \o <<Ev("LLM Similarity", idx[p])>>)
    /\ pc' = Set(pc, p, "llm_resolve_key")
    /\ UNCHANGED <<keyStore, envKey, args, actual_json, expected_json, schema, idx,
                   open_ai_api_key, service_key, response, results, verdict, raised>>
    /\ UNCHANGED <<opVars, stepVars>>

\* open_ai_api_key = ... ; if not open_ai_api_key: raise NoOpenAiApiKeyException()
LlmResolveKey(p) ==
    /\ pc[p] = "llm_resolve_key"
    /\ LET key == resolve_key(Validation(p), keyStore, envKey)
       IN  /\ open_ai_api_key' = Set(open_ai_api_key, p, key)
           /\ IF key = NoKey
              THEN /\ raised' = Set(raised, p, "NoOpenAiApiKeyException")
                   /\ pc' = Set(pc, p, "except")
              ELSE /\ pc' = Set(pc, p, "llm_set_key")
                   /\ UNCHANGED raised
    /\ UNCHANGED <<keyStore, envKey, args, actual_json, expected_json, schema, idx,
                   service_key, response, results, trace, verdict>>
    /\ UNCHANGED <<opVars, stepVars>>

\* OpenAiApiKey.set_key(open_ai_api_key)
LlmSetKey(p) ==
    /\ pc[p] = "llm_set_key"
    /\ keyStore' = open_ai_api_key[p]
    /\ pc' = Set(pc, p, "llm_service")
    /\ UNCHANGED <<envKey, args, actual_json, expected_json, schema, idx,
                   open_ai_api_key, service_key, response, results, trace, verdict, raised>>
    /\ UNCHANGED <<opVars, stepVars>>

\* llm_service = OpenAiService()
LlmService(p) ==
    /\ pc[p] = "llm_service"
    /\ service_key' = Set(service_key, p, OpenAiService(keyStore))
    /\ pc' = Set(pc, p, "llm_completion")
    /\ UNCHANGED <<keyStore, envKey, args, actual_json, expected_json, schema, idx,
                   open_ai_api_key, response, results, trace, verdict, raised>>
    /\ UNCHANGED <<opVars, stepVars>>

\* response = llm_service.json_completion(...): the capability answers r
LlmCompletion(p) ==
    /\ pc[p] = "llm_completion"
    /\ \E r \in Responses : response' = Set(response, p, r)
    /\ Emit(p, <<Ev("json_completion", idx[p])>>)
    /\ pc' = Set(pc, p, "llm_judge")
    /\ UNCHANGED <<keyStore, envKey, args, actual_json, expected_json, schema, idx,
                   open_ai_api_key, service_key, results, verdict, raised>>
    /\ UNCHANGED <<opVars, stepVars>>

\* llm_service.json_completion(...) raises (the call is outside the try block)
LlmCompletionRaises(p) ==
    /\ pc[p] = "llm_completion"
    /\ Emit(p, <<Ev("json_completion", idx[p])>>)
    /\ raised' = Set(raised, p, "CompletionError")
    /\ pc' = Set(pc, p, "except")
    /\ UNCHANGED <<keyStore, envKey, args, actual_json, expected_json, schema, idx,
                   open_ai_api_key, service_key, response, results, verdict>>
    /\ UNCHANGED <<opVars, stepVars>>

\* try: result = response["result"] ... except: return False
LlmJudge(p) ==
    /\ pc[p] = "llm_judge"
    /\ LET passed == llm_judgment(response[p])
       IN  Conclude(p, passed, [NoResult EXCEPT !.passed = passed, !.response = response[p]],
                    IF passed THEN <<>> ELSE <<Ev("logger.error", idx[p])>>)
    /\ UNCHANGED <<keyStore, envKey, args, actual_json, expected_json, schema,
                   open_ai_api_key, service_key, response, raised>>
    /\ UNCHANGED <<opVars, stepVars>>

\* except Exception as e: logger.error(...); raise e
Except(p) ==
    /\ pc[p] = "except"
    /\ Emit(p, <<Ev("logger.error", 0)>>)
    /\ pc' = Set(pc, p, "raised")
    /\ UNCHANGED <<keyStore, envKey, args, actual_json, expected_json, schema, idx,
                   open_ai_api_key, service_key, response, results, verdict, raised>>
    /\ UNCHANGED <<opVars, stepVars>>

\* The call is over (returned or raised); the thread is ready for the next.
Return(p) ==
    /\ pc[p] \in {"done", "raised"}
    /\ pc' = Set(pc, p, "idle")
    /\ args' = Set(args, p, NoArgs)
    /\ actual_json' = Set(actual_json, p, Unset)
    /\ expected_json' = Set(expected_json, p, Unset)
    /\ schema' = Set(schema, p, NoneSchema)
    /\ idx' = Set(idx, p, 1)
    /\ open_ai_api_key' = Set(open_ai_api_key, p, NoKey)
    /\ service_key' = Set(service_key, p, NoKey)
    /\ response' = Set(response, p, NoResponse)
    /\ results' = Set(results, p, <<>>)
    /\ trace' = Set(trace, p, <<>>)
    /\ verdict' = Set(verdict, p, NoVerdict)
    /\ raised' = Set(raised, p, "")
    /\ UNCHANGED <<keyStore, envKey>>
    /\ UNCHANGED <<opVars, stepVars>>

\* The calls of one thread, one after another.
Next ==
    \/ \E in \in CallInputs : Call(MainThread, in)
    \/ LoadActual(MainThread)
    \/ LoadExpected(MainThread)
    \/ GetSchema(MainThread)
    \/ CheckSchema(MainThread)
    \/ ValidateSchema(MainThread)
    \/ LoopValidations(MainThread)
    \/ ApplyEquals(MainThread)
    \/ ApplyCosineSimilarity(MainThread)
    \/ ApplyUnsupported(MainThread)
    \/ ApplyLlmSimilarity(MainThread)
    \/ LlmResolveKey(MainThread)
    \/ LlmSetKey(MainThread)
    \/ LlmService(MainThread)
    \/ LlmCompletion(MainThread)
    \/ LlmCompletionRaises(MainThread)
    \/ LlmJudge(MainThread)
    \/ Except(MainThread)
    \/ Return(MainThread)

Spec == Init /\ [][Next]_vars

(***************************************************************************)
(* Two threads calling json_eval concurrently.  Each call carries one      *)
(* validation entry; an LLM Similarity entry with an explicit key carries  *)
(* the key of its thread.                                                  *)
(***************************************************************************)
ThreadKey(p) == IF p = MainThread THEN "sk-entry" ELSE "sk-other"
ConcInputs(p) ==
    [actual_json : {DictInput([a |-> 1])},
     expected_json : {DictInput([a |-> 1])},
     schema : {SchemaDict(RequireASchema)},
     validations : {<<Entry("Equals", NoThreshold, NoKey)>>,
                    <<Entry("Cosine Similarity", NoThreshold, NoKey)>>,
                    <<Entry("LLM Similarity", NoThreshold, NoKey)>>,
                    <<Entry("LLM Similarity", NoThreshold, ThreadKey(p))>>}]

NextConc ==
    \E p \in Threads :
        \/ \E in \in ConcInputs(p) : Call(p, in)
        \/ LoadActual(p)
        \/ LoadExpected(p)
        \/ GetSchema(p)
        \/ CheckSchema(p)
        \/ ValidateSchema(p)
        \/ LoopValidations(p)
        \/ ApplyEquals(p)
        \/ ApplyCosineSimilarity(p)
        \/ ApplyLlmSimilarity(p)
        \/ LlmResolveKey(p)
        \/ LlmSetKey(p)
        \/ LlmService(p)
        \/ LlmCompletion(p)
        \/ LlmCompletionRaises(p)
        \/ LlmJudge(p)
        \/ Except(p)
        \/ Return(p)

SpecConc == Init /\ [][NextConc]_vars

(***************************************************************************)
(* Texts of the function operations are sequences of one-character         *)
(* strings.  The operators below compute what the Python string methods    *)
(* and the link pattern compute.                                           *)
(***************************************************************************)
Whitespace == {" ", "\t", "\n", "\r", "\f"}
MinOf(S) == CHOOSE x \in S : \A y \in S : x <= y
MaxOf(S) == CHOOSE x \in S : \A y \in S : y <= x
HasPrefixAt(t, s, pre) ==
    /\ s + Len(pre) - 1 <= Len(t)
    /\ SubSeq(t, s, s + Len(pre) - 1) = pre
StartsWithSeq(t, pre) == HasPrefixAt(t, 1, pre)
EndsWithSeq(t, suf) == Len(suf) <= Len(t) /\ HasPrefixAt(t, Len(t) - Len(suf) + 1, suf)
IsSubstring(k, t) == \E s \in 1..(Len(t) + 1) : HasPrefixAt(t, s, k)

RECURSIVE Flatten(_)
Flatten(ss) == IF ss = <<>> THEN <<>> ELSE Head(ss) \o Flatten(Tail(ss))
RECURSIVE Join(_, _)
Join(list, sep) ==
    IF list = <<>> THEN <<>>
    ELSE IF Len(list) = 1 THEN list[1]
    ELSE list[1] \o sep \o Join(Tail(list), sep)
RECURSIVE Split(_, _)
Split(t, c) ==
    LET at == {i \in 1..Len(t) : t[i] = c}
    IN  IF at = {} THEN <<t>>
        ELSE <<SubSeq(t, 1, MinOf(at) - 1)>> \o Split(SubSeq(t, MinOf(at) + 1, Len(t)), c)
Strip(t) ==
    LET ink == {i \in 1..Len(t) : t[i] \notin Whitespace}
    IN  IF ink = {} THEN <<>> ELSE SubSeq(t, MinOf(ink), MaxOf(ink))

LowerLetters == <<"a", "b", "c", "d", "e", "f", "g", "h", "i", "j", "k", "l", "m",
                  "n", "o", "p", "q", "r", "s", "t", "u", "v", "w", "x", "y", "z">>
UpperLetters == <<"A", "B", "C", "D", "E", "F", "G", "H", "I", "J", "K", "L", "M",
                  "N", "O", "P", "Q", "R", "S", "T", "U", "V", "W", "X", "Y", "Z">>
LetterIndex(letters, c) == CHOOSE k \in DOMAIN letters : letters[k] = c
IsIn(letters, c) == \E k \in DOMAIN letters : letters[k] = c
\* str.lower() of one character: the sharp s has no lower-case change.
LowerChar(c) == IF IsIn(UpperLetters, c) THEN LowerLetters[LetterIndex(UpperLetters, c)] ELSE c
\* str.upper() of one character: the sharp s becomes two letters.
UpperChar(c) ==
    IF c = "ß" THEN <<"S", "S">>
    ELSE IF IsIn(LowerLetters, c) THEN <<UpperLetters[LetterIndex(LowerLetters, c)]>>
    ELSE <<c>>
Lower(t) == [i \in 1..Len(t) |-> LowerChar(t[i])]
Upper(t) == Flatten([i \in 1..Len(t) |-> UpperChar(t[i])])

(***************************************************************************)
(* re.search of (?!.*@)(?:https?://)?(?:www\.)?\S+\.\S+                     *)
(***************************************************************************)
HttpScheme == <<"h", "t", "t", "p", ":", "/", "/">>
HttpsScheme == <<"h", "t", "t", "p", "s", ":", "/", "/">>
WwwDot == <<"w", "w", "w", ".">>
\* (?!.*@): no "@" between s and the end of the line.
NoAtAhead(t, s) ==
    LET breaks == {k \in s..Len(t) : t[k] = "\n"}
        line_end == IF breaks = {} THEN Len(t) ELSE MinOf(breaks) - 1
    IN  \A k \in s..line_end : t[k] # "@"
\* (?:https?://)? : the positions the optional group can leave the match at.
AfterScheme(t, s) ==
    {s} \cup (IF HasPrefixAt(t, s, HttpScheme) THEN {s + Len(HttpScheme)} ELSE {})
        \cup (IF HasPrefixAt(t, s, HttpsScheme) THEN {s + Len(HttpsScheme)} ELSE {})
\* (?:www\.)?
AfterWww(t, q) ==
    {q} \cup (IF HasPrefixAt(t, q, WwwDot) THEN {q + Len(WwwDot)} ELSE {})
\* Last index of the run of non-whitespace characters that starts at q.
RunLast(t, q) ==
    IF q > Len(t) THEN q - 1
    ELSE LET stops == {k \in q..Len(t) : t[k] \in Whitespace}
         IN  IF stops = {} THEN Len(t) ELSE MinOf(stops) - 1
\* \S+\.\S+ from q: a dot with a non-whitespace character on both sides.
CoreMatches(t, q) == \E d \in (q + 1)..(RunLast(t, q) - 1) : t[d] = "."
MatchesAt(t, s) ==
    /\ NoAtAhead(t, s)
    /\ \E q1 \in AfterScheme(t, s) : \E q2 \in AfterWww(t, q1) : CoreMatches(t, q2)
NoMatch == [found |-> FALSE, group |-> <<>>]
\* The leftmost match; \S+ is greedy, so it runs to the end of the run.
link_search(t) ==
    LET starts == {s \in 1..Len(t) : MatchesAt(t, s)}
    IN  IF starts = {} THEN NoMatch
        ELSE [found |-> TRUE, group |-> SubSeq(t, MinOf(starts), RunLast(t, MinOf(starts)))]

standardize_url_always(url) == HttpScheme \o url
standardize_url(url) ==
    IF StartsWithSeq(url, HttpScheme) \/ StartsWithSeq(url, HttpsScheme)
    THEN url
    ELSE HttpScheme \o url

(***************************************************************************)
(* The link operations.                                                    *)
(***************************************************************************)
StatusOk == 200
HeadStatuses == {200, 301, 404}
HeadOutcome(r, s) == [raised |-> r, status_code |-> s]
NoHead == HeadOutcome(FALSE, 0)
\* requests.head(standardized_url): no timeout argument is passed
HeadRequest(url) == [url |-> url, timeout |-> None, head |-> NoHead]
\* llm_service.json_completion(model=..., messages=..., temperature=0.0)
json_completion_request(p) == [timeout |-> None, entry |-> idx[p], temperature |-> 0]

LinkValid(matched_url) == <<"link ">> \o matched_url \o <<" found in output and is valid">>
LinkInvalid(matched_url) == <<"link ">> \o matched_url \o <<" found in output but is invalid">>

contains_link(text) ==
    IF link_search(text).found
    THEN OpVerdict(TRUE, <<"Link found in output">>)
    ELSE OpVerdict(FALSE, <<"No link found in output">>)

\* contains_valid_link, once requests.head has returned or raised
contains_valid_link_probed(matched_url, h) ==
    IF h.raised THEN OpVerdict(FALSE, LinkInvalid(matched_url))
    ELSE IF h.status_code = StatusOk THEN OpVerdict(TRUE, LinkValid(matched_url))
    ELSE OpVerdict(FALSE, LinkInvalid(matched_url))
contains_valid_link_none == OpVerdict(FALSE, <<"no link found in output">>)

\* no_invalid_links, once requests.head has returned or raised
no_invalid_links_probed(matched_url, h) ==
    IF h.raised THEN OpVerdict(FALSE, LinkInvalid(matched_url))
    ELSE IF h.status_code = StatusOk THEN OpVerdict(TRUE, LinkValid(matched_url))
    ELSE OpVerdict(FALSE, LinkInvalid(matched_url))
no_invalid_links_none_fails == OpVerdict(FALSE, <<"no invalid link found in output">>)
no_invalid_links_none == OpVerdict(TRUE, <<"no invalid link found in output">>)

(***************************************************************************)
(* The keyword and string matchers.                                        *)
(***************************************************************************)
preprocess_strings(keywords, text, case_sensitive) ==
    LET split == IF keywords.is_str THEN Split(keywords.text, ",") ELSE keywords.list
        stripped == [i \in 1..Len(split) |-> Strip(split[i])]
    IN  IF ~case_sensitive
        THEN [text |-> Lower(text),
              keywords |-> [i \in 1..Len(stripped) |-> Lower(stripped[i])]]
        ELSE [text |-> text, keywords |-> stripped]

\* for keyword in keywords: if keyword in text: found_keywords.append(keyword)
RECURSIVE found_keywords(_, _)
found_keywords(keywords, text) ==
    IF keywords = <<>> THEN <<>>
    ELSE (IF IsSubstring(Head(keywords), text) THEN <<Head(keywords)>> ELSE <<>>)
             \o found_keywords(Tail(keywords), text)
\* for keyword in keywords: if keyword not in text: missing_keywords.append(keyword)
RECURSIVE missing_keywords(_, _)
missing_keywords(keywords, text) ==
    IF keywords = <<>> THEN <<>>
    ELSE (IF ~IsSubstring(Head(keywords), text) THEN <<Head(keywords)>> ELSE <<>>)
             \o missing_keywords(Tail(keywords), text)
CommaSpace == <<",", " ">>

contains_any(keywords, text, case_sensitive) ==
    LET pre == preprocess_strings(keywords, text, case_sensitive)
        found == found_keywords(pre.keywords, pre.text)
    IN  IF found # <<>>
        THEN OpVerdict(TRUE, <<"One or more keywords were found in output: ">>
                                 \o Join(found, CommaSpace))
        ELSE OpVerdict(FALSE, <<"No keywords found in output">>)

contains_all_first_miss(keywords, text, case_sensitive) ==
    LET pre == preprocess_strings(keywords, text, case_sensitive)
        missing == missing_keywords(pre.keywords, pre.text)
    IN  IF Len(missing) > 0
        THEN OpVerdict(FALSE, <<"keywords not found in output: ">> \o missing[1])
        ELSE OpVerdict(TRUE, <<ToString(Len(pre.keywords)), "/", ToString(Len(pre.keywords)),
                                " keywords found in output">>)
contains_all(keywords, text, case_sensitive) ==
    LET pre == preprocess_strings(keywords, text, case_sensitive)
        missing == missing_keywords(pre.keywords, pre.text)
    IN  IF Len(missing) > 0
        THEN OpVerdict(FALSE, <<"keywords not found in output: ">>
                                  \o Join(missing, CommaSpace))
        ELSE OpVerdict(TRUE, <<ToString(Len(pre.keywords)), "/", ToString(Len(pre.keywords)),
                                " keywords found in output">>)

contains(keyword, text, case_sensitive) ==
    LET txt == IF case_sensitive = FALSE THEN Lower(text) ELSE text
        kw == IF case_sensitive = FALSE THEN Lower(keyword.text) ELSE keyword.text
    IN  IF ~IsSubstring(kw, txt)
        THEN OpVerdict(FALSE, <<"keyword not found in output: ">> \o kw)
        ELSE OpVerdict(TRUE, <<"keyword ">> \o kw \o <<" found in output">>)

contains_none_sensitive(keywords, text, case_sensitive) ==
    LET pre == preprocess_strings(keywords, text, TRUE)
        found == found_keywords(pre.keywords, pre.text)
    IN  IF found # <<>>
        THEN OpVerdict(FALSE, <<"One or more keywords were found in output: ">>
                                  \o Join(found, CommaSpace))
        ELSE OpVerdict(TRUE, <<"No keywords found in output">>)
contains_none(keywords, text, case_sensitive) ==
    LET pre == preprocess_strings(keywords, text, case_sensitive)
        found == found_keywords(pre.keywords, pre.text)
    IN  IF found # <<>>
        THEN OpVerdict(FALSE, <<"One or more keywords were found in output: ">>
                                  \o Join(found, CommaSpace))
        ELSE OpVerdict(TRUE, <<"No keywords found in output">>)

\* The reason of equals opens with the character U+2705 (white heavy check mark).
CheckMark == "U+2705"
equals(expected_text, text, case_sensitive) ==
    LET txt == IF case_sensitive = FALSE THEN Lower(text) ELSE text
        expected == IF case_sensitive = FALSE THEN Lower(expected_text.text)
                    ELSE expected_text.text
    IN  IF txt = expected
        THEN OpVerdict(TRUE, <<CheckMark, " Text exactly matches expected text">>)
        ELSE OpVerdict(FALSE, <<"output does not exactly match expected text">>)

starts_with(substring, text, case_sensitive) ==
    LET txt == IF case_sensitive = FALSE THEN Lower(text) ELSE text
        sub == IF case_sensitive = FALSE THEN Lower(substring.text) ELSE substring.text
    IN  IF StartsWithSeq(txt, sub)
        THEN OpVerdict(TRUE, <<"output starts with ">> \o sub)
        ELSE OpVerdict(FALSE, <<"output does not start with ">> \o sub)

ends_with(substring, text, case_sensitive) ==
    LET txt == IF case_sensitive = FALSE THEN Lower(text) ELSE text
        sub == IF case_sensitive = FALSE THEN Lower(substring.text) ELSE substring.text
    IN  IF EndsWithSeq(txt, sub)
        THEN OpVerdict(TRUE, <<"output ends with ">> \o sub)
        ELSE OpVerdict(FALSE, <<"output does not end with ">> \o sub)

\* The registry: operation name -> function, for the matchers with a
\* case_sensitive flag.
KeywordMatchers == {"ContainsAny", "ContainsAll", "ContainsNone"}
StringMatchers == {"Contains", "Equals", "StartsWith", "EndsWith"}
LinkValidators == {"ContainsValidLink", "NoInvalidLinks"}
operations(name, x, text, case_sensitive) ==
    CASE name = "ContainsAny" -> contains_any(x, text, case_sensitive)
      [] name = "ContainsAll" -> contains_all(x, text, case_sensitive)
      [] name = "Contains" -> contains(x, text, case_sensitive)
      [] name = "ContainsNone" -> contains_none(x, text, case_sensitive)
      [] name = "Equals" -> equals(x, text, case_sensitive)
      [] name = "StartsWith" -> starts_with(x, text, case_sensitive)
      [] name = "EndsWith" -> ends_with(x, text, case_sensitive)

(***************************************************************************)
(* Calls of the function operations, one after another.  m_call is the     *)
(* call in hand, m_out what it returned, m_probes the HEAD requests it     *)
(* issued.                                                                 *)
(***************************************************************************)
KeywordInputs ==
    {ListParam(<<<<"a">>, <<"b">>>>),
     ListParam(<<<<"a">>, <<"c">>>>),
     ListParam(<<<<"x">>>>),
     ListParam(<<<<"h", "e", "l", "l", "o">>>>),
     ListParam(<<<<"c">>, <<"a">>, <<"x">>>>),
     ListParam(<<<<" ", "B">>, <<"a", " ">>>>),
     ListParam(<<<<"ß">>>>),
     StrParam(<<"A", ",", " ", "c">>),
     StrParam(<<"x", " ", ",", "c">>)}
StringInputs ==
    {StrParam(<<"a">>),
     StrParam(<<"B">>),
     StrParam(<<"h", "e", "l", "l", "o">>),
     StrParam(<<"W", "o", "r", "l", "d">>),
     StrParam(<<"s", "s">>),
     StrParam(<<"ß">>),
     StrParam(<<>>)}
MatchTexts ==
    {<<"a", " ", "b">>,
     <<"A", " ", "B">>,
     <<"h", "e", "l", "l", "o">>,
     <<"h", "e", "l", "l", "o", " ", "w", "o", "r", "l", "d">>,
     <<"s", "s">>,
     <<"ß">>,
     <<>>}
LinkTexts ==
    {<<>>,
     <<"h", "e", "l", "l", "o">>,
     <<"s", "e", "e", " ", "a", ".", "b">>,
     <<"h", "t", "t", "p", ":", "/", "/", "a", ".", "b">>,
     <<"h", "t", "t", "p", "s", ":", "/", "/", "a", ".", "b", " ", "c">>,
     <<"w", "w", "w", ".", "a", ".", "b">>,
     <<"a", ".", " ", "b">>,
     <<"a", "@", "b", ".", "c", "o", "m">>,
     <<"a", ".", "b", "\n", "c", "@", "d">>}
LinkCall(n, t) == OpCall(n, StrParam(<<>>), t, FALSE)
\* Keyword options no operation reads: none, or one.
UnrecognizedOptions == {{}, {"verbose"}}

Returns(call, out) ==
    /\ m_call' = call
    /\ m_out' = out
    /\ m_probes' = <<>>
    /\ m_kwargs' \in UnrecognizedOptions
    /\ m_pc' = "returned"
    /\ UNCHANGED m_raised
    /\ UNCHANGED <<jsonVars, stepVars>>

Probes(call, url) ==
    /\ m_call' = call
    /\ m_out' = NoOut
    /\ m_probes' = <<HeadRequest(url)>>
    /\ m_kwargs' \in UnrecognizedOptions
    /\ m_pc' = "probing"
    /\ UNCHANGED m_raised
    /\ UNCHANGED <<jsonVars, stepVars>>

ContainsAny(x, t, cs) ==
    /\ m_pc = "idle"
    /\ Returns(OpCall("ContainsAny", x, t, cs), contains_any(x, t, cs))
ContainsAll(x, t, cs) ==
    /\ m_pc = "idle"
    /\ Returns(OpCall("ContainsAll", x, t, cs), contains_all(x, t, cs))
ContainsNone(x, t, cs) ==
    /\ m_pc = "idle"
    /\ Returns(OpCall("ContainsNone", x, t, cs), contains_none(x, t, cs))
Contains(x, t, cs) ==
    /\ m_pc = "idle"
    /\ Returns(OpCall("Contains", x, t, cs), contains(x, t, cs))
Equals(x, t, cs) ==
    /\ m_pc = "idle"
    /\ Returns(OpCall("Equals", x, t, cs), equals(x, t, cs))
StartsWith(x, t, cs) ==
    /\ m_pc = "idle"
    /\ Returns(OpCall("StartsWith", x, t, cs), starts_with(x, t, cs))
EndsWith(x, t, cs) ==
    /\ m_pc = "idle"
    /\ Returns(OpCall("EndsWith", x, t, cs), ends_with(x, t, cs))
ContainsLink(t) ==
    /\ m_pc = "idle"
    /\ Returns(LinkCall("ContainsLink", t), contains_link(t))

\* contains_valid_link up to requests.head(standardized_url)
ContainsValidLink(t) ==
    /\ m_pc = "idle"
    /\ LET link_match == link_search(t)
       IN  IF link_match.found /\ link_match.group # <<>>
           THEN Probes(LinkCall("ContainsValidLink", t), standardize_url(link_match.group))
           ELSE Returns(LinkCall("ContainsValidLink", t), contains_valid_link_none)

\* no_invalid_links up to requests.head(standardized_url)
NoInvalidLinks(t) ==
    /\ m_pc = "idle"
    /\ LET link_match == link_search(t)
       IN  IF link_match.found /\ link_match.group # <<>>
           THEN Probes(LinkCall("NoInvalidLinks", t), standardize_url(link_match.group))
           ELSE Returns(LinkCall("NoInvalidLinks", t), no_invalid_links_none)

\* requests.head returned a response or raised: the rest of the link validator
HeadCompletes(h) ==
    /\ m_probes' = [m_probes EXCEPT ![Len(m_probes)].head = h]
    /\ m_out' = IF m_call.name = "ContainsValidLink"
                THEN contains_valid_link_probed(link_search(m_call.text).group, h)
                ELSE no_invalid_links_probed(link_search(m_call.text).group, h)
    /\ m_pc' = "returned"
    /\ UNCHANGED <<m_call, m_kwargs, m_raised>>
    /\ UNCHANGED <<jsonVars, stepVars>>
HeadResponds(status) ==
    /\ m_pc = "probing"
    /\ HeadCompletes(HeadOutcome(FALSE, status))
HeadRaises ==
    /\ m_pc = "probing"
    /\ HeadCompletes(HeadOutcome(TRUE, 0))

(***************************************************************************)
(* json.loads on a text: the scanner of the json module, character by      *)
(* character.  Every operator takes the position to read at and gives the  *)
(* position after what it read, or 0 where the decoder raises              *)
(* JSONDecodeError.                                                        *)
(***************************************************************************)
JsonWs == {" ", "\t", "\n", "\r"}
Digits == {"0", "1", "2", "3", "4", "5", "6", "7", "8", "9"}
HexDigits == Digits \cup {"a", "b", "c", "d", "e", "f", "A", "B", "C", "D", "E", "F"}
SimpleEscapes == {"\"", "\\", "/", "b", "f", "n", "r", "t"}
ControlChars == {"\t", "\n", "\r", "\f"}
At(t, i) == IF i \in 1..Len(t) THEN t[i] ELSE ""
RECURSIVE SkipWs(_, _)
SkipWs(t, i) == IF At(t, i) \in JsonWs THEN SkipWs(t, i + 1) ELSE i
RECURSIVE SkipDigits(_, _)
SkipDigits(t, i) == IF At(t, i) \in Digits THEN SkipDigits(t, i + 1) ELSE i
\* scanstring, from the character after the opening quote
RECURSIVE ScanString(_, _)
ScanString(t, i) ==
    IF i > Len(t) THEN 0
    ELSE IF t[i] = "\"" THEN i + 1
    ELSE IF t[i] = "\\"
         THEN IF At(t, i + 1) \in SimpleEscapes THEN ScanString(t, i + 2)
              ELSE IF At(t, i + 1) = "u" /\ \A k \in 2..5 : At(t, i + k) \in HexDigits
                   THEN ScanString(t, i + 6)
              ELSE 0
    ELSE IF t[i] \in ControlChars THEN 0
    ELSE ScanString(t, i + 1)
\* NUMBER_RE: (-?(?:0|[1-9]\d*))(\.\d+)?([eE][-+]?\d+)?
ScanNumber(t, i) ==
    LET s1 == IF At(t, i) = "-" THEN i + 1 ELSE i
        int_end == IF At(t, s1) = "0" THEN s1 + 1
                   ELSE IF At(t, s1) \in Digits THEN SkipDigits(t, s1 + 1)
                   ELSE 0
        frac_end == IF At(t, int_end) = "." /\ At(t, int_end + 1) \in Digits
                    THEN SkipDigits(t, int_end + 2)
                    ELSE int_end
        exp_at == IF At(t, frac_end + 1) \in {"+", "-"} THEN frac_end + 2 ELSE frac_end + 1
    IN  IF int_end = 0 THEN 0
        ELSE IF At(t, frac_end) \in {"e", "E"} /\ At(t, exp_at) \in Digits
             THEN SkipDigits(t, exp_at + 1)
        ELSE frac_end
Word(t, i, w) == IF HasPrefixAt(t, i, w) THEN i + Len(w) ELSE 0

RECURSIVE scan_once(_, _)
RECURSIVE JSONObject(_, _)
RECURSIVE ObjectMembers(_, _)
RECURSIVE JSONArray(_, _)
RECURSIVE ArrayElements(_, _)
scan_once(t, i) ==
    LET c == At(t, i)
    IN  IF c = "\"" THEN ScanString(t, i + 1)
        ELSE IF c = "{" THEN JSONObject(t, i + 1)
        ELSE IF c = "[" THEN JSONArray(t, i + 1)
        ELSE IF Word(t, i, <<"n", "u", "l", "l">>) # 0 THEN i + 4
        ELSE IF Word(t, i, <<"t", "r", "u", "e">>) # 0 THEN i + 4
        ELSE IF Word(t, i, <<"f", "a", "l", "s", "e">>) # 0 THEN i + 5
        ELSE IF ScanNumber(t, i) # 0 THEN ScanNumber(t, i)
        ELSE IF Word(t, i, <<"N", "a", "N">>) # 0 THEN i + 3
        ELSE IF Word(t, i, <<"I", "n", "f", "i", "n", "i", "t", "y">>) # 0 THEN i + 8
        ELSE Word(t, i, <<"-", "I", "n", "f", "i", "n", "i", "t", "y">>)
\* JSONObject, from the character after "{"
JSONObject(t, i) ==
    LET j == SkipWs(t, i)
    IN  IF At(t, j) = "}" THEN j + 1
        ELSE IF At(t, j) # "\"" THEN 0
        ELSE ObjectMembers(t, j + 1)
\* one "key": value pair and what follows it, from the character after the
\* opening quote of the key
ObjectMembers(t, i) ==
    LET key_end == ScanString(t, i)
        colon == SkipWs(t, key_end)
        value_end == scan_once(t, SkipWs(t, colon + 1))
        next == SkipWs(t, value_end)
        quote == SkipWs(t, next + 1)
    IN  IF key_end = 0 \/ At(t, colon) # ":" THEN 0
        ELSE IF value_end = 0 THEN 0
        ELSE IF At(t, next) = "}" THEN next + 1
        ELSE IF At(t, next) # "," \/ At(t, quote) # "\"" THEN 0
        ELSE ObjectMembers(t, quote + 1)
\* JSONArray, from the character after "["
JSONArray(t, i) ==
    LET j == SkipWs(t, i)
    IN  IF At(t, j) = "]" THEN j + 1 ELSE ArrayElements(t, j)
ArrayElements(t, i) ==
    LET value_end == scan_once(t, i)
        next == SkipWs(t, value_end)
    IN  IF value_end = 0 THEN 0
        ELSE IF At(t, next) = "]" THEN next + 1
        ELSE IF At(t, next) # "," THEN 0
        ELSE ArrayElements(t, SkipWs(t, next + 1))
\* json.loads(text) returns (TRUE) or raises JSONDecodeError (FALSE)
json_loads(t) ==
    LET value_end == scan_once(t, SkipWs(t, 1))
    IN  value_end # 0 /\ SkipWs(t, value_end) = Len(t) + 1

(***************************************************************************)
(* re.findall of the pattern of contains_json,                             *)
(*   \{(?:\s*S\s*:\s*(?:S|[^{}\[\]:,]+)|[^{}]+)*\}   with S a quoted string, *)
(* as the backtracking matcher runs it: alternatives in the order written, *)
(* every repetition greedy.                                                *)
(***************************************************************************)
RECURSIVE SkipSpace(_, _)
SkipSpace(t, i) == IF At(t, i) \in Whitespace THEN SkipSpace(t, i + 1) ELSE i
\* "(?:\\.|[^"\\])*" from the character after the opening quote
RECURSIVE QuotedEnd(_, _)
QuotedEnd(t, i) ==
    IF i > Len(t) THEN 0
    ELSE IF t[i] = "\"" THEN i + 1
    ELSE IF t[i] = "\\"
         THEN IF i + 1 <= Len(t) /\ t[i + 1] # "\n" THEN QuotedEnd(t, i + 2) ELSE 0
    ELSE QuotedEnd(t, i + 1)
Braces == {"{", "}"}
BareStops == {"{", "}", "[", "]", ":", ","}
RECURSIVE RunEnd(_, _, _)
RunEnd(t, i, stops) ==
    IF i > Len(t) \/ t[i] \in stops THEN i ELSE RunEnd(t, i + 1, stops)
\* hi, hi - 1, ..., lo: the positions a greedy repetition gives back
Down(hi, lo) == [k \in 1..(hi - lo + 1) |-> hi + 1 - k]
\* (?:S|[^{}\[\]:,]+) at w: the positions it can end at, in the order tried
ValueEnds(t, w) ==
    (IF At(t, w) = "\"" /\ QuotedEnd(t, w + 1) # 0 THEN <<QuotedEnd(t, w + 1)>> ELSE <<>>)
        \o Down(RunEnd(t, w, BareStops), w + 1)
\* \s*S\s*:\s*(?:S|[^{}\[\]:,]+) at p
PairEnds(t, p) ==
    LET quote == SkipSpace(t, p)
        key_end == QuotedEnd(t, quote + 1)
        colon == SkipSpace(t, key_end)
        value == SkipSpace(t, colon + 1)
    IN  IF At(t, quote) # "\"" \/ key_end = 0 \/ At(t, colon) # ":" THEN <<>>
        ELSE Flatten([k \in 1..(value - colon) |-> ValueEnds(t, value + 1 - k)])
\* [^{}]+ at p
OtherEnds(t, p) == Down(RunEnd(t, p, Braces), p + 1)
\* (?: ... )*\} from every position p..Len(t)+1: the index of the closing
\* brace the matcher stops at, 0 where it fails
RECURSIVE ClosingBrace(_, _)
ClosingBrace(t, p) ==
    IF p > Len(t) THEN <<0>>
    ELSE LET rest == ClosingBrace(t, p + 1)
             ends == SelectSeq(PairEnds(t, p) \o OtherEnds(t, p), LAMBDA e : rest[e - p] # 0)
         IN  <<IF ends # <<>> THEN rest[ends[1] - p]
               ELSE IF t[p] = "}" THEN p
               ELSE 0>> \o rest
RECURSIVE find_all(_, _, _)
find_all(t, s, closing) ==
    IF s > Len(t) THEN <<>>
    ELSE IF t[s] = "{" /\ closing[s + 1] # 0
         THEN <<SubSeq(t, s, closing[s + 1])>> \o find_all(t, closing[s + 1] + 1, closing)
    ELSE find_all(t, s + 1, closing)
json_matches(t) == find_all(t, 1, ClosingBrace(t, 1))

contains_json(text) ==
    LET trimmed_output == Strip(text)
        matches == json_matches(trimmed_output)
        errors == SelectSeq(matches, LAMBDA potential_json_string : ~json_loads(potential_json_string))
    IN  IF matches # <<>>
        THEN IF errors # <<>>
             THEN OpVerdict(FALSE, <<"Output contains a potential JSON but it is invalid">>)
             ELSE OpVerdict(TRUE, <<"Output contains JSON">>)
        ELSE OpVerdict(FALSE, <<"Output does not contain JSON">>)

is_json_search(text) ==
    IF contains_json(text).result
    THEN OpVerdict(TRUE, <<"Output contains JSON">>)
    ELSE OpVerdict(FALSE, <<"Output does not contain JSON">>)
is_json(text) ==
    IF json_loads(text)
    THEN OpVerdict(TRUE, <<"Output contains JSON">>)
    ELSE OpVerdict(FALSE, <<"Output does not contain JSON">>)

(***************************************************************************)
(* api_call.  The values a response body carries are Python values of any  *)
(* type, so the Verdict of api_call holds typed values.                    *)
(***************************************************************************)
PyBool(b) == [text |-> <<>>, type |-> "bool", bool |-> b]
PyStr(t) == [text |-> t, type |-> "str", bool |-> FALSE]
PyNone == [text |-> <<>>, type |-> "NoneType", bool |-> FALSE]
\* api_response.json(): a dict with or without the keys, or not JSON at all
Body(r, s) == [result |-> r, reason |-> s, is_json |-> TRUE]
NotJson == [result |-> PyNone, reason |-> PyNone, is_json |-> FALSE]
Bodies ==
    {Body(PyBool(TRUE), PyStr(<<"o", "k">>)),
     Body(PyBool(FALSE), PyStr(<<"b", "a", "d">>)),
     Body(PyStr(<<"y", "e", "s">>), PyStr(<<>>)),
     Body(PyNone, PyNone),
     NotJson}
PostStatuses == {200, 400, 401, 404, 500}
PostOutcome(r, s, b) == [raised |-> r, status_code |-> s, body |-> b]
ApiException == OpVerdict(PyBool(FALSE), PyStr(<<"API Request Exception: ", "e">>))

\* api_call, once requests.post has returned or raised
api_call(o) ==
    IF o.raised THEN ApiException
    ELSE IF o.status_code = 200
         THEN IF o.body.is_json
              THEN OpVerdict(o.body.result, o.body.reason)
              ELSE ApiException
    ELSE IF o.status_code = 400
         THEN OpVerdict(PyBool(FALSE), PyStr(<<"Bad Request: The server could not understand the request due to invalid syntax.">>))
    ELSE IF o.status_code = 401
         THEN OpVerdict(PyBool(FALSE), PyStr(<<"Unauthorized: Authentication is required and has failed or has not been provided.">>))
    ELSE IF o.status_code = 500
         THEN OpVerdict(PyBool(FALSE), PyStr(<<"Internal Server Error: The server encountered an unexpected condition.">>))
    ELSE OpVerdict(PyBool(FALSE), PyStr(<<"An error occurred: ", ToString(o.status_code)>>))

\* Operations whose signature ends with **kwargs; api_call names every
\* parameter it takes.
TakesKwargs(name) == name # "ApiCall"

\* operations["ApiCall"](url=..., response=..., **options) up to requests.post
ApiCall(t, kw) ==
    /\ m_pc = "idle"
    /\ m_call' = LinkCall("ApiCall", t)
    /\ m_kwargs' = kw
    /\ m_out' = NoOut
    /\ m_probes' = <<>>
    /\ IF kw # {} /\ ~TakesKwargs("ApiCall")
       THEN m_pc' = "raised" /\ m_raised' = "TypeError"
       ELSE m_pc' = "posting" /\ m_raised' = ""
    /\ UNCHANGED <<jsonVars, stepVars>>

\* requests.post returned a response or raised: the rest of api_call
PostCompletes(o) ==
    /\ m_out' = api_call(o)
    /\ m_pc' = "returned"
    /\ UNCHANGED <<m_call, m_probes, m_kwargs, m_raised>>
    /\ UNCHANGED <<jsonVars, stepVars>>
PostResponds(status, body) ==
    /\ m_pc = "posting"
    /\ PostCompletes(PostOutcome(FALSE, status, body))
PostRaises ==
    /\ m_pc = "posting"
    /\ PostCompletes(PostOutcome(TRUE, 0, NotJson))

\* Texts given to the JSON checks: whole documents, documents inside prose,
\* brace groups that are not JSON, and texts without braces.
JsonTexts ==
    {<<"{", "\"", "a", "\"", ":", "1", "}">>,
     <<"{", "a", ":", "1", "}">>,
     <<"x", " ", "{", "\"", "a", "\"", ":", "1", "}", " ", "y">>,
     <<"x", " ", "{", "a", ":", "1", "}", " ", "y">>,
     <<"h", "e", "l", "l", "o">>,
     <<>>,
     <<" ", "{", "\"", "a", "\"", ":", "1", "}", "\n">>,
     <<"{", "\"", "a", "\"", ":", "1", "}", " ", "{", "b", "}">>,
     <<"[", "1", "]">>,
     <<"{", "\"", "a", "\"", ":", " ", "{", "\"", "b", "\"", ":", " ", "1", "}", "}">>,
     <<"{", "\"", "a", "\"", ":", "\"", "}", "\"", "}">>}
JsonObjectText == <<"{", "\"", "a", "\"", ":", "1", "}">>
UnquotedKeyText == <<"{", "a", ":", "1", "}">>
ProseText == <<"x", " ", "{", "\"", "a", "\"", ":", "1", "}", " ", "y">>

IsJson(t) ==
    /\ m_pc = "idle"
    /\ Returns(LinkCall("IsJson", t), is_json(t))
ContainsJson(t) ==
    /\ m_pc = "idle"
    /\ Returns(LinkCall("ContainsJson", t), contains_json(t))

\* The call is over (returned or raised); the next one can be made.
OpReturn ==
    /\ m_pc \in {"returned", "raised"}
    /\ m_pc' = "idle"
    /\ m_call' = NoCall
    /\ m_out' = NoOut
    /\ m_probes' = <<>>
    /\ m_kwargs' = {}
    /\ m_raised' = ""
    /\ UNCHANGED <<jsonVars, stepVars>>

NextOps ==
    \/ \E x \in KeywordInputs, t \in MatchTexts, cs \in BOOLEAN : ContainsAny(x, t, cs)
    \/ \E x \in KeywordInputs, t \in MatchTexts, cs \in BOOLEAN : ContainsAll(x, t, cs)
    \/ \E x \in KeywordInputs, t \in MatchTexts, cs \in BOOLEAN : ContainsNone(x, t, cs)
    \/ \E x \in StringInputs, t \in MatchTexts, cs \in BOOLEAN : Contains(x, t, cs)
    \/ \E x \in StringInputs, t \in MatchTexts, cs \in BOOLEAN : Equals(x, t, cs)
    \/ \E x \in StringInputs, t \in MatchTexts, cs \in BOOLEAN : StartsWith(x, t, cs)
    \/ \E x \in StringInputs, t \in MatchTexts, cs \in BOOLEAN : EndsWith(x, t, cs)
    \/ \E t \in LinkTexts : ContainsLink(t)
    \/ \E t \in LinkTexts : ContainsValidLink(t)
    \/ \E t \in LinkTexts : NoInvalidLinks(t)
    \/ \E status \in HeadStatuses : HeadResponds(status)
    \/ HeadRaises
    \/ \E t \in MatchTexts, kw \in UnrecognizedOptions : ApiCall(t, kw)
    \/ \E status \in PostStatuses, body \in Bodies : PostResponds(status, body)
    \/ PostRaises
    \/ \E t \in JsonTexts : IsJson(t)
    \/ \E t \in JsonTexts : ContainsJson(t)
    \/ OpReturn

SpecOps == Init /\ [][NextOps]_vars

(***************************************************************************)
(* The HTTP step executors: ApiCall.execute (steps/api.py) and             *)
(* Search.execute (steps/search.py).  The body is rendered by the         *)
(* template engine before the loop, which can raise; the request is a      *)
(* capability whose outcome is a response, a timeout or another            *)
(* exception.                                                              *)
(***************************************************************************)

ApiCallRetries == 3
ApiCallTimeout == 5
SearchRetries == 2
SearchTimeout == 30
ErrorStatus == 400

\* input_data: None, a value that is no dictionary, or a dictionary.  The
\* dictionaries are {"n": "x"}, {"n": "\""}, {1: "x"} (a key that is no
\* string) and {"n": [{1}]} (a list that json.dumps cannot serialise).
NoneInput == "None"
StrInput == "'x'"
DictPlain == "{'n': 'x'}"
DictQuote == "{'n': '\"'}"
DictIntKey == "{1: 'x'}"
DictSetInList == "{'n': [{1}]}"
Dictionaries == {DictPlain, DictQuote, DictIntKey, DictSetInList}
StepInputs == {NoneInput, StrInput} \cup Dictionaries

\* Template texts: a JSON object whose value is the placeholder {{n}}, and one
\* whose value opens a block that is never closed.
Placeholder == <<"{", "{", "n", "}", "}">>
BlockStart == <<"{", "%">>
TemplateText == <<"{", "\"", "a", "\"", ":", "\"">> \o Placeholder \o <<"\"", "}">>
BadTemplateText == <<"{", "\"", "a", "\"", ":", "\"">> \o BlockStart \o <<"\"", "}">>

\* self.body: None or a text (empty, a JSON text, a text that is not JSON,
\* the two template texts).
BodyText(t) == [is_none |-> FALSE, text |-> t]
StepBodies ==
    {NoBody, BodyText(<<>>), BodyText(JsonObjectText), BodyText(UnquotedKeyText),
     BodyText(TemplateText), BodyText(BadTemplateText)}
\* self.headers, self.params: None, an empty dictionary, or one with an entry
\* (whose value holds no template syntax).
StepDicts == {"None", "empty", "entries"}

ApiCallInputs ==
    {StepCall("ApiCall", i, b, h, q) : i \in StepInputs, b \in StepBodies,
                                       h \in StepDicts, q \in StepDicts}
\* Search builds its body itself: json.dumps of a dictionary of its fields,
\* always a JSON text before it is rendered; the query can hold template
\* syntax.  Search parses the rendered text with strict=False, which differs
\* from the strict parse only on control characters inside strings; these
\* texts hold none.
SearchBodies == {BodyText(JsonObjectText), BodyText(TemplateText), BodyText(BadTemplateText)}
SearchInputs ==
    {StepCall("Search", i, b, "entries", "None") : i \in StepInputs, b \in SearchBodies}

\* env.from_string(text), prepare_input_data(input_data) and
\* template.render(**prepared_input_data), in this order and outside any
\* try: the exception raised, "" when there is none.  from_string rejects an
\* unclosed block, json.dumps a value it cannot serialise, and the keyword
\* call a key that is no string.
prepare_raises(t, d) ==
    IF IsSubstring(BlockStart, t) THEN "TemplateSyntaxError"
    ELSE IF d = DictSetInList THEN "TypeError"
    ELSE IF d = DictIntKey THEN "TypeError"
    ELSE ""

\* What {{n}} renders to: the value bound to n; PreserveUndefined writes an
\* unbound name back as a placeholder.
Bound(d) ==
    IF d = DictPlain THEN <<"x">>
    ELSE IF d = DictQuote THEN <<"\"">>
    ELSE <<"{", "{", " ", "n", " ", "}", "}">>

RECURSIVE render(_, _)
render(t, d) ==
    IF t = <<>> THEN <<>>
    ELSE IF StartsWithSeq(t, Placeholder)
         THEN Bound(d) \o render(SubSeq(t, Len(Placeholder) + 1, Len(t)), d)
         ELSE <<Head(t)>> \o render(Tail(t), d)

\* The outcome of one request.
Pending == [text |-> <<>>, status_code |-> 0, kind |-> "pending", exception |-> ""]
TimedOut == [text |-> <<>>, status_code |-> 0, kind |-> "Timeout", exception |-> "Timeout"]
Response(status, t) == [text |-> t, status_code |-> status, kind |-> "response", exception |-> ""]
Failed(e) == [text |-> <<>>, status_code |-> 0, kind |-> "exception", exception |-> e]
Request(timeout) == [timeout |-> timeout, outcome |-> Pending]
StepStatuses == {200, 204, 399, 400, 404, 500}
ResponseTexts == {JsonObjectText, <<"o", "k">>}
RequestExceptions == {"ConnectionError", "TooManyRedirects"}

FailedToMake == "Failed to make the API call.\n"
TimedOutResult ==
    StepResult("error", FALSE, <<FailedToMake, "Request timed out after multiple attempts.">>)
StatusResult(r) ==
    StepResult("error", FALSE,
               <<FailedToMake, "Status code: ", ToString(r.status_code), "\nError:\n">> \o r.text)
ExceptionResult(e) ==
    StepResult("error", FALSE, <<FailedToMake, "Error: ", e, "\nDetails:\n">>)
NotADictionary == StepResult("error", FALSE, <<"Input data must be a dictionary.">>)
\* response.json() when the text parses, response.text otherwise.
SuccessResult(r) == StepResult("success", json_loads(r.text), r.text)

Retries(step) == IF step = "ApiCall" THEN ApiCallRetries ELSE SearchRetries
Timeout(step) == IF step = "ApiCall" THEN ApiCallTimeout ELSE SearchTimeout

StepReturns(r) ==
    /\ s_pc' = "returned"
    /\ s_result' = r
    /\ s_raised' = ""
StepRaises(e) ==
    /\ s_pc' = "raised"
    /\ s_result' = ReturnsNone
    /\ s_raised' = e

\* One iteration of `for attempt in range(retries)` up to the request: the
\* loop is over when the range is exhausted; building the request's json
\* argument parses the rendered body, inside the try.
Iterate(step, body, attempt, reqs) ==
    /\ s_attempt' = attempt
    /\ IF attempt >= Retries(step)
       THEN /\ StepReturns(ReturnsNone)
            /\ s_requests' = reqs
       ELSE IF body.text # <<>> /\ ~json_loads(body.text)
            THEN /\ StepReturns(ExceptionResult("JSONDecodeError"))
                 /\ s_requests' = reqs
            ELSE /\ s_pc' = "requesting"
                 /\ s_requests' = Append(reqs, Request(Timeout(step)))
                 /\ UNCHANGED <<s_result, s_raised>>

\* except requests.Timeout: unless this was the last iteration, execute
\* goes into time.sleep(2), with no request in flight; after the last one it
\* returns the timed-out error.
retry_on_timeout(c, attempt, reqs) ==
    /\ s_attempt' = attempt
    /\ s_requests' = reqs
    /\ IF attempt < Retries(c.step) - 1
       THEN /\ s_pc' = "sleeping"
            /\ UNCHANGED <<s_result, s_raised>>
       ELSE StepReturns(TimedOutResult)

Resolved(o) == [s_requests EXCEPT ![Len(s_requests)].outcome = o]

\* ApiCall.execute up to its first request.  The body is rendered only when
\* self.body is not None, outside any try; prepared_input_data is bound only
\* then, and read for every entry of headers and params.
ApiCallExecute(c) ==
    /\ s_pc = "idle"
    /\ s_call' = c
    /\ IF c.input = StrInput
       THEN /\ StepRaises("TypeError")
            /\ UNCHANGED <<s_body, s_attempt, s_requests>>
       ELSE IF ~c.body.is_none /\ prepare_raises(c.body.text, c.input) # ""
            THEN /\ StepRaises(prepare_raises(c.body.text, c.input))
                 /\ UNCHANGED <<s_body, s_attempt, s_requests>>
            ELSE IF c.body.is_none /\ (c.headers = "entries" \/ c.params = "entries")
                 THEN /\ StepRaises("UnboundLocalError")
                      /\ UNCHANGED <<s_body, s_attempt, s_requests>>
                 ELSE LET body == IF c.body.is_none THEN NoBody
                                  ELSE BodyText(render(c.body.text, c.input))
                      IN  /\ s_body' = body
                          /\ Iterate(c.step, body, 0, <<>>)
    /\ UNCHANGED <<jsonVars, opVars>>

\* Search.execute up to its first request.  The body is always rendered,
\* outside any try.
SearchExecute(c) ==
    /\ s_pc = "idle"
    /\ s_call' = c
    /\ IF c.input = StrInput
       THEN /\ StepReturns(NotADictionary)
            /\ UNCHANGED <<s_body, s_attempt, s_requests>>
       ELSE IF prepare_raises(c.body.text, c.input) # ""
            THEN /\ StepRaises(prepare_raises(c.body.text, c.input))
                 /\ UNCHANGED <<s_body, s_attempt, s_requests>>
            ELSE LET body == BodyText(render(c.body.text, c.input))
                 IN  /\ s_body' = body
                     /\ Iterate(c.step, body, 0, <<>>)
    /\ UNCHANGED <<jsonVars, opVars>>

\* The request in flight times out.
RequestTimesOut ==
    /\ s_pc = "requesting"
    /\ retry_on_timeout(s_call, s_attempt, Resolved(TimedOut))
    /\ UNCHANGED <<s_call, s_body, jsonVars, opVars>>

\* time.sleep(2) is over: `continue` starts the next iteration, which builds
\* and issues the next request.
SleepEnds ==
    /\ s_pc = "sleeping"
    /\ Iterate(s_call.step, s_body, s_attempt + 1, s_requests)
    /\ UNCHANGED <<s_call, s_body, jsonVars, opVars>>

\* The request in flight is answered.
RequestResponds(status, t) ==
    /\ s_pc = "requesting"
    /\ s_requests' = Resolved(Response(status, t))
    /\ IF status >= ErrorStatus
       THEN StepReturns(StatusResult(Response(status, t)))
       ELSE StepReturns(SuccessResult(Response(status, t)))
    /\ UNCHANGED <<s_call, s_body, s_attempt, jsonVars, opVars>>

\* The request in flight raises an exception that is not a timeout.
RequestRaises(e) ==
    /\ s_pc = "requesting"
    /\ s_requests' = Resolved(Failed(e))
    /\ StepReturns(ExceptionResult(e))
    /\ UNCHANGED <<s_call, s_body, s_attempt, jsonVars, opVars>>

\* execute is over (returned or raised); the next call can be made.
StepReturn ==
    /\ s_pc \in {"returned", "raised"}
    /\ s_pc' = "idle"
    /\ s_call' = NoStepCall
    /\ s_body' = NoBody
    /\ s_attempt' = 0
    /\ s_requests' = <<>>
    /\ s_result' = ReturnsNone
    /\ s_raised' = ""
    /\ UNCHANGED <<jsonVars, opVars>>

NextSteps ==
    \/ \E c \in ApiCallInputs : ApiCallExecute(c)
    \/ \E c \in SearchInputs : SearchExecute(c)
    \/ RequestTimesOut
    \/ SleepEnds
    \/ \E status \in StepStatuses, t \in ResponseTexts : RequestResponds(status, t)
    \/ \E e \in RequestExceptions : RequestRaises(e)
    \/ StepReturn

SpecSteps == Init /\ [][NextSteps]_vars

TypeOK ==
    /\ keyStore \in StoreKeys \cup EntryKeys \cup EnvKeys
    /\ envKey \in EnvKeys
    /\ \A p \in Threads : idx[p] \in 1..(MaxValidations + 1)

(***************************************************************************)
(* Vocabulary of the properties.                                           *)
(***************************************************************************)

HasEv(p, names) == \E k \in DOMAIN trace[p] : trace[p][k].ev \in names
ComparisonEvs ==
    {"extract_json_path", "Equals", "Cosine Similarity", "LLM Similarity",
     "unsupported", "compare", "json_completion"}
Parses(in) == ~in.is_str \/ JsonLoads(in.text).ok
Satisfies(doc, s) == \A k \in s.required : doc[k] # None
SchemaNotProvided == Verdict(FALSE, "Schema not provided")
SchemaValidationFailed == Verdict(FALSE, "Schema validation failed")
ValidationFailed == Verdict(FALSE, "Validation failed")
JsonEvalPassed == Verdict(TRUE, "Json eval passed")
Ran(p, i) == i \in DOMAIN results[p]
Function(p, i) == args[p].validations[i].validating_function

\* C1: once the schema has been checked against the documents and either
\* document fails it (also when the other one passes), json_eval has returned
\* "Schema validation failed" and has made no path extraction and no strategy
\* or capability call.
C1_SchemaGate ==
    \A p \in Threads :
        (HasEv(p, {"validate_json"})
            /\ ~(Satisfies(actual_json[p], schema[p]) /\ Satisfies(expected_json[p], schema[p])))
        => /\ pc[p] = "done"
           /\ verdict[p] = SchemaValidationFailed
           /\ raised[p] = ""
           /\ results[p] = <<>>
           /\ ~HasEv(p, ComparisonEvs)

\* An asymmetric pair (actual passes the schema, expected does not) was
\* rejected, with a plan that had an entry to compare.
C1_Witness ==
    \E p \in Threads :
        /\ pc[p] = "done"
        /\ verdict[p] = SchemaValidationFailed
        /\ Satisfies(actual_json[p], schema[p])
        /\ ~Satisfies(expected_json[p], schema[p])
        /\ Len(args[p].validations) > 0

\* C2: entries run in the order supplied, and when entry i fails json_eval has
\* returned "Validation failed" with nothing extracted, dispatched or asked of
\* a capability for any entry after i.
C2_FirstFailureWins ==
    \A p \in Threads :
        /\ \A k, l \in DOMAIN trace[p] :
              (k < l /\ trace[p][k].ev \in ComparisonEvs /\ trace[p][l].ev \in ComparisonEvs)
              => trace[p][k].i <= trace[p][l].i
        /\ \A i \in DOMAIN results[p] :
              ~results[p][i].passed
              => /\ i = Len(results[p])
                 /\ pc[p] = "done"
                 /\ verdict[p] = ValidationFailed
                 /\ \A k \in DOMAIN trace[p] : trace[p][k].i <= i

\* The first of two entries failed and the second, which would have called a
\* capability, never ran.
C2_Witness ==
    \E p \in Threads :
        /\ pc[p] = "done"
        /\ verdict[p] = ValidationFailed
        /\ Len(args[p].validations) = 2
        /\ Len(results[p]) = 1
        /\ Function(p, 2) \in {"Cosine Similarity", "LLM Similarity"}
        /\ ~HasEv(p, {"compare", "json_completion"})

\* C3: an entry naming an unsupported strategy ends the call in a raised error
\* and json_eval returns no Verdict.
C3_UnknownStrategyRaises ==
    \A p \in Threads : \A i \in DOMAIN results[p] :
        Function(p, i) \notin {"Equals", "Cosine Similarity", "LLM Similarity"}
        => /\ verdict[p] = NoVerdict
           /\ pc[p] \in {"except", "raised"}

\* C4: a call whose documents parse and whose schema is None never validates,
\* extracts or compares anything, never raises, and returns "Schema not
\* provided".
C4_SchemaNotProvided ==
    \A p \in Threads :
        (pc[p] # "idle" /\ Parses(args[p].actual_json) /\ Parses(args[p].expected_json)
            /\ args[p].schema = SchemaDict(NoneSchema))
        => /\ pc[p] \in {"load_actual", "load_expected", "get_schema", "check_schema", "done"}
           /\ raised[p] = ""
           /\ ~HasEv(p, {"validate_json"} \cup ComparisonEvs)
           /\ pc[p] = "done" => verdict[p] = SchemaNotProvided

\* Such a call returned, its documents given as text and its plan not empty.
C4_Witness ==
    \E p \in Threads :
        /\ pc[p] = "done"
        /\ args[p].schema = SchemaDict(NoneSchema)
        /\ args[p].actual_json.is_str
        /\ Len(args[p].validations) > 0
        /\ verdict[p] = SchemaNotProvided

\* C5 (as claimed): json_eval returns "Json eval passed" exactly when a schema
\* is present, both documents satisfy it and every entry of the plan passed.
C5_PassExactlyWhen ==
    \A p \in Threads :
        pc[p] = "done"
        => ((verdict[p] = JsonEvalPassed)
            <=> (/\ ~schema[p].is_none
                 /\ Satisfies(actual_json[p], schema[p])
                 /\ Satisfies(expected_json[p], schema[p])
                 /\ Len(results[p]) = Len(args[p].validations)
                 /\ \A i \in DOMAIN results[p] : results[p][i].passed))

\* C6: when the actual or the expected text does not parse, the call never
\* resolves the schema and never returns a Verdict: it logs and raises the
\* parse error.
C6_ParseErrorRaises ==
    \A p \in Threads :
        (pc[p] # "idle" /\ ~(Parses(args[p].actual_json) /\ Parses(args[p].expected_json)))
        => /\ pc[p] \in {"load_actual", "load_expected", "except", "raised"}
           /\ verdict[p] = NoVerdict
           /\ ~HasEv(p, {"get_schema", "validate_json"} \cup ComparisonEvs)
           /\ pc[p] \in {"except", "raised"} => raised[p] = "JSONDecodeError"
           /\ pc[p] = "raised" => trace[p][Len(trace[p])] = Ev("logger.error", 0)

\* An unparsable expected document with no schema raised.
C6_Witness ==
    \E p \in Threads :
        /\ pc[p] = "raised"
        /\ raised[p] = "JSONDecodeError"
        /\ args[p].expected_json = TextInput(TextBad)
        /\ args[p].schema = SchemaDict(NoneSchema)

\* C7: a Cosine Similarity entry passes exactly when the comparator's score is
\* at least pass_threshold, 0.8 when the entry omits it.
C7_CosineThreshold ==
    \A p \in Threads : \A i \in DOMAIN results[p] :
        Function(p, i) = "Cosine Similarity"
        => (results[p][i].passed
            <=> results[p][i].score >=
                    (IF args[p].validations[i].pass_threshold = NoThreshold
                     THEN DefaultPassThreshold
                     ELSE args[p].validations[i].pass_threshold))

\* A score exactly at the default threshold passed.
C7_Witness ==
    \E p \in Threads : \E i \in DOMAIN results[p] :
        /\ Function(p, i) = "Cosine Similarity"
        /\ args[p].validations[i].pass_threshold = NoThreshold
        /\ results[p][i].score = DefaultPassThreshold
        /\ results[p][i].passed

\* C8 (as claimed): an LLM Similarity entry passes only on a well-formed
\* judgment whose result is Pass.
C8_MalformedJudgmentFails ==
    \A p \in Threads : \A i \in DOMAIN results[p] :
        (Function(p, i) = "LLM Similarity" /\ results[p][i].passed)
        => /\ ~results[p][i].response.is_none
           /\ results[p][i].response.has_result
           /\ results[p][i].response.has_explanation
           /\ results[p][i].response.result = "Pass"

FirstKey(entry_key, store, env) ==
    IF entry_key # NoKey THEN entry_key ELSE IF store # NoKey THEN store ELSE env

\* C9: the key an LLM Similarity entry goes on with is the entry's key, else
\* the configured key, else the environment's; with all three absent the call
\* raises NoOpenAiApiKeyException, returns no Verdict and makes no
\* chat-completion call for the entry.
C9_KeyResolution ==
    \A p \in Threads :
        /\ pc[p] = "llm_set_key"
           => /\ open_ai_api_key[p] = FirstKey(Validation(p).open_ai_api_key, keyStore, envKey)
              /\ open_ai_api_key[p] # NoKey
        /\ pc[p] \in {"llm_service", "llm_completion", "llm_judge"} => open_ai_api_key[p] # NoKey
        /\ raised[p] = "NoOpenAiApiKeyException"
           => /\ Validation(p).open_ai_api_key = NoKey
              /\ keyStore = NoKey
              /\ envKey = NoKey
              /\ pc[p] \in {"except", "raised"}
              /\ verdict[p] = NoVerdict
              /\ \A k \in DOMAIN trace[p] :
                    ~(trace[p][k].ev = "json_completion" /\ trace[p][k].i = idx[p])

\* The configured key was preferred to the environment's.
C9_Witness ==
    \E p \in Threads :
        /\ pc[p] = "llm_set_key"
        /\ Validation(p).open_ai_api_key = NoKey
        /\ keyStore # NoKey
        /\ envKey # NoKey
        /\ envKey # keyStore
        /\ open_ai_api_key[p] = keyStore

\* C10 (as claimed): no step of a json_eval call changes the configured key.
C10_KeyStoreUnchanged == [][keyStore' = keyStore]_vars

\* C11 (as claimed): whatever the interleaving, the chat-completion request of
\* a call whose LLM Similarity entry carries a key is made with that key.
C11_RequestUsesOwnKey ==
    \A p \in Threads :
        (pc[p] = "llm_judge" /\ Validation(p).open_ai_api_key # NoKey)
        => service_key[p] = Validation(p).open_ai_api_key

Finished(p) == pc[p] \in {"done", "raised"}
SameArguments(p, q) == args[p] = args[q]
SameAnswers(p, q) ==
    /\ (raised[p] = "CompletionError") = (raised[q] = "CompletionError")
    /\ (results[p] # <<>> /\ results[q] # <<>>)
       => /\ results[p][1].score = results[q][1].score
          /\ results[p][1].response = results[q][1].response
SameOutcome(p, q) == verdict[p] = verdict[q] /\ raised[p] = raised[q]

\* C12: two runs of a strategy on the same values and validation
\* entry, with the same capability answers, end the same way, whatever the key
\* store and the environment hold and whatever ran before.
C12_StrategiesPure ==
    \A p, q \in Threads :
        (Finished(p) /\ Finished(q) /\ SameArguments(p, q) /\ SameAnswers(p, q))
        => SameOutcome(p, q)

\* C13: from the call to its return or raise, no step of json_eval changes the
\* documents, the schema or the validation entries the caller passed.
C13_InputsUntouched ==
    [][\A p \in Threads : (pc[p] # "idle" /\ pc'[p] # "idle") => args'[p] = args[p]]_vars

\* A call given its documents as text returned after parsing them into its
\* own locals; the caller's arguments are still the texts.
C13_Witness ==
    \E p \in Threads :
        /\ pc[p] = "done"
        /\ verdict[p] = JsonEvalPassed
        /\ args[p].actual_json = TextInput(TextA1)
        /\ actual_json[p] = [a |-> 1]
        /\ args[p].schema = SchemaText(SchemaTextReq)
        /\ schema[p] = RequireASchema

(***************************************************************************)
(* Vocabulary of the properties of the function operations.                *)
(***************************************************************************)
Returned(names) == m_pc = "returned" /\ m_call.name \in names
\* A URL-like token: a run of non-whitespace characters with a dot inside
\* it, starting where no "@" follows on the line.
UrlLike(t) ==
    \E s \in 1..Len(t) : \E d \in (s + 1)..Len(t) : \E e \in (d + 1)..Len(t) :
        /\ \A k \in s..e : t[k] \notin Whitespace
        /\ t[d] = "."
        /\ \A k \in s..Len(t) : (\A j \in s..k : t[j] # "\n") => t[k] # "@"
MatchedToken(t) == link_search(t).group
ProbeUrl(token) ==
    IF StartsWithSeq(token, HttpScheme) \/ StartsWithSeq(token, HttpsScheme)
    THEN token
    ELSE <<"h", "t", "t", "p", ":", "/", "/">> \o token

\* C14: without a URL-like token in the text ContainsLink and
\* ContainsValidLink return result False, NoInvalidLinks returns result True
\* and no HEAD request is issued; with one, the Verdict of a link validator
\* is the Verdict both validators give for the outcome of the probe.
C14_NoLinkVerdicts ==
    /\ m_pc = "probing" => UrlLike(m_call.text)
    /\ Returned({"ContainsLink"}) => (m_out.result = UrlLike(m_call.text) /\ m_probes = <<>>)
    /\ (Returned(LinkValidators) /\ ~UrlLike(m_call.text)) =>
          /\ m_probes = <<>>
          /\ m_out.result = (m_call.name = "NoInvalidLinks")
    /\ (Returned(LinkValidators) /\ UrlLike(m_call.text)) =>
          /\ Len(m_probes) = 1
          /\ m_out = contains_valid_link_probed(MatchedToken(m_call.text), m_probes[1].head)
          /\ m_out = no_invalid_links_probed(MatchedToken(m_call.text), m_probes[1].head)
C14_Witness ==
    /\ Returned({"NoInvalidLinks"})
    /\ m_call.text # <<>>
    /\ ~UrlLike(m_call.text)
    /\ m_out.result
    /\ m_probes = <<>>

\* C15: once a candidate URL is found the validator returns a Verdict for
\* every outcome of the HEAD request, result True exactly for a response of
\* status 200, and the URL requested is the matched token, with "http://"
\* in front of it when it starts with neither http:// nor https://.
C15_ProbeClassification ==
    /\ m_pc = "probing" =>
          /\ Len(m_probes) = 1
          /\ m_probes[1].url = ProbeUrl(MatchedToken(m_call.text))
    /\ (Returned(LinkValidators) /\ UrlLike(m_call.text)) =>
          /\ Len(m_probes) = 1
          /\ m_probes[1].url = ProbeUrl(MatchedToken(m_call.text))
          /\ m_out.result = (~m_probes[1].head.raised /\ m_probes[1].head.status_code = 200)
          /\ m_out.reason # <<>>
C15_Witness ==
    /\ Returned({"ContainsValidLink"})
    /\ Len(m_probes) = 1
    /\ m_probes[1].head.raised
    /\ ~m_out.result
    /\ StartsWithSeq(MatchedToken(m_call.text), HttpsScheme)
    /\ m_probes[1].url = MatchedToken(m_call.text)

\* C16: every network call in flight, the HEAD request of a link validator
\* and the completion request of an LLM Similarity validation, carries a
\* timeout.
C16_ExplicitTimeout ==
    /\ m_pc = "probing" => \A k \in DOMAIN m_probes : m_probes[k].timeout # None
    /\ \A p \in Threads :
          pc[p] = "llm_completion" => json_completion_request(p).timeout # None

\* C17: a call whose one network attempt failed ends in a Verdict with
\* result False: a link validator has issued one HEAD request and returned
\* result False, and json_eval does not end by raising the failure of the
\* completion call.
C17_FailedAttemptIsVerdict ==
    /\ Returned(LinkValidators) =>
          /\ Len(m_probes) <= 1
          /\ (Len(m_probes) = 1 /\ m_probes[1].head.raised) => ~m_out.result
    /\ \A p \in Threads :
          /\ Len(SelectSeq(trace[p], LAMBDA e : e.ev = "json_completion" /\ e.i = idx[p])) <= 1
          /\ pc[p] = "raised" => raised[p] # "CompletionError"

\* The keywords and the text as the keyword matchers compare them.
NormalizedKeywords(x, cs) ==
    LET raw == IF x.is_str THEN Split(x.text, ",") ELSE x.list
    IN  [i \in 1..Len(raw) |-> IF cs THEN Strip(raw[i]) ELSE Lower(Strip(raw[i]))]
NormalizedText(t, cs) == IF cs THEN t ELSE Lower(t)
FoundIn(x, t, cs) ==
    SelectSeq(NormalizedKeywords(x, cs), LAMBDA k : IsSubstring(k, NormalizedText(t, cs)))
MissingIn(x, t, cs) ==
    SelectSeq(NormalizedKeywords(x, cs), LAMBDA k : ~IsSubstring(k, NormalizedText(t, cs)))

\* C18: ContainsAll passes exactly when every normalized keyword is a
\* substring of the text, and when it fails its reason lists the missing
\* keywords, all of them, in the order supplied.
C18_ContainsAllListsEveryMiss ==
    Returned({"ContainsAll"}) =>
        LET missing == MissingIn(m_call.param, m_call.text, m_call.case_sensitive)
        IN  /\ m_out.result = (missing = <<>>)
            /\ ~m_out.result =>
                  m_out.reason = <<"keywords not found in output: ">> \o Join(missing, <<",", " ">>)
\* ContainsAll(["c", "a", "x"], "a b") failed citing "c, x".
C18_Witness ==
    /\ Returned({"ContainsAll"})
    /\ m_call.param = ListParam(<<<<"c">>, <<"a">>, <<"x">>>>)
    /\ m_call.text = <<"a", " ", "b">>
    /\ ~m_out.result
    /\ m_out.reason = <<"keywords not found in output: ", "c", ",", " ", "x">>

\* C19: on the same keywords, text and flag the result of ContainsNone is
\* the negation of the result of ContainsAny, and both report the same
\* ordered list of found keywords.
C19_NoneNegatesAny ==
    /\ Returned({"ContainsNone"}) =>
          LET any == contains_any(m_call.param, m_call.text, m_call.case_sensitive)
          IN  /\ m_out.result = ~any.result
              /\ m_out.reason = any.reason
              /\ m_out.result = (FoundIn(m_call.param, m_call.text, m_call.case_sensitive) = <<>>)
    /\ Returned({"ContainsAny"}) =>
          LET none == contains_none(m_call.param, m_call.text, m_call.case_sensitive)
          IN  /\ m_out.result = ~none.result
              /\ m_out.reason = none.reason
              /\ m_out.result = (FoundIn(m_call.param, m_call.text, m_call.case_sensitive) # <<>>)
\* ContainsNone(["hello"], "hello world") failed, naming the keyword found.
C19_Witness ==
    /\ Returned({"ContainsNone"})
    /\ m_call.param = ListParam(<<<<"h", "e", "l", "l", "o">>>>)
    /\ m_call.text = <<"h", "e", "l", "l", "o", " ", "w", "o", "r", "l", "d">>
    /\ ~m_out.result
    /\ m_out.reason = <<"One or more keywords were found in output: ", "h", "e", "l", "l", "o">>

\* C20: a matcher called with case_sensitive=False returns the Verdict it
\* returns when its parameter and its text are both upper-cased first.
UpperParam(x) ==
    IF x.is_str THEN StrParam(Upper(x.text))
    ELSE ListParam([i \in 1..Len(x.list) |-> Upper(x.list[i])])
C20_UpperCaseInvariant ==
    (Returned(KeywordMatchers \cup StringMatchers) /\ ~m_call.case_sensitive) =>
        m_out = operations(m_call.name, UpperParam(m_call.param), Upper(m_call.text), FALSE)

\* C21: whenever a registry operation returns, it returns a Verdict whose
\* result is a boolean and whose reason is a non-empty string; for ApiCall
\* this is so for every status and body of the response.
C21_VerdictWellFormed ==
    m_pc = "returned" =>
        IF m_call.name = "ApiCall"
        THEN /\ m_out.result.type = "bool"
             /\ m_out.reason.type = "str"
             /\ m_out.reason.text # <<>>
        ELSE /\ m_out.result \in BOOLEAN
             /\ m_out.reason # <<>>

\* C22: a call that passes an unrecognized keyword option does not end in
\* an error, and a matcher called with one returns the Verdict of the call
\* without it.
C22_UnrecognizedOptionIgnored ==
    m_kwargs # {} =>
        /\ m_pc # "raised"
        /\ Returned(KeywordMatchers \cup StringMatchers) =>
              m_out = operations(m_call.name, m_call.param, m_call.text, m_call.case_sensitive)

\* A text whose only dotted tokens are email-like: it has a dot, and every
\* dot stands in a run of non-whitespace characters that holds an "@".
SameToken(t, i, j) ==
    \A k \in (IF i < j THEN i ELSE j)..(IF i < j THEN j ELSE i) : t[k] \notin Whitespace
OnlyEmailTokens(t) ==
    /\ \E d \in DOMAIN t : t[d] = "."
    /\ \A d \in DOMAIN t : t[d] = "." => \E k \in DOMAIN t : t[k] = "@" /\ SameToken(t, d, k)

\* C23: on a text whose only dotted token is an email address ContainsLink
\* returns result False, ContainsValidLink returns "no link found in
\* output", NoInvalidLinks passes, and no HEAD request is issued.
C23_EmailIsNoLink ==
    OnlyEmailTokens(m_call.text) =>
        /\ m_pc # "probing"
        /\ m_probes = <<>>
        /\ Returned({"ContainsLink"}) => ~m_out.result
        /\ Returned({"ContainsValidLink"}) => m_out = contains_valid_link_none
        /\ Returned({"NoInvalidLinks"}) => m_out = no_invalid_links_none

\* C24: IsJson passes exactly when the whole text parses as JSON;
\* ContainsJson passes exactly when the text holds at least one
\* brace-delimited candidate and every candidate parses, so it passes on a
\* JSON object inside prose, where IsJson fails.
C24_IsJsonVersusContainsJson ==
    /\ Returned({"IsJson"}) =>
          /\ m_out.result = json_loads(m_call.text)
          /\ m_call.text = JsonObjectText => m_out.result
          /\ m_call.text \in {UnquotedKeyText, ProseText} => ~m_out.result
    /\ Returned({"ContainsJson"}) =>
          LET candidates == json_matches(Strip(m_call.text))
          IN  /\ m_out.result = (/\ candidates # <<>>
                                 /\ \A k \in DOMAIN candidates : json_loads(candidates[k]))
              /\ m_call.text = ProseText => m_out.result
              /\ m_call.text = UnquotedKeyText => ~m_out.result
\* ContainsJson passed on a JSON object inside prose, a text that does not
\* parse as a whole.
C24_Witness ==
    /\ Returned({"ContainsJson"})
    /\ m_call.text = ProseText
    /\ m_out.result
    /\ ~json_loads(m_call.text)

\* The retry contract of the step executors' loops: no more requests than
\* the step's retries, each request but the first issued after the one
\* before it timed out and the wait that follows, an error result for a status >= 400 and for an
\* exception that is not a timeout, the timed-out error result after the
\* last attempt timed out, and never None for a result.
LastOutcome == s_requests[Len(s_requests)].outcome
RetryContract ==
    /\ Len(s_requests) <= Retries(s_call.step)
    /\ \A k \in 1..(Len(s_requests) - 1) : s_requests[k].outcome = TimedOut
    /\ s_pc = "sleeping" =>
          /\ s_requests # <<>>
          /\ LastOutcome = TimedOut
          /\ Len(s_requests) < Retries(s_call.step)
    /\ (s_pc = "returned" /\ s_requests # <<>>) =>
          /\ LastOutcome.kind = "exception" => s_result.status = "error"
          /\ (LastOutcome.kind = "response" /\ LastOutcome.status_code >= ErrorStatus) =>
                s_result.status = "error"
          /\ LastOutcome = TimedOut =>
                /\ Len(s_requests) = Retries(s_call.step)
                /\ s_result = TimedOutResult
    /\ s_pc = "returned" =>
          /\ ~s_result.is_none
          /\ s_result.status \in {"success", "error"}

\* C25: the step executors retry only after a timeout and at most 3
\* (ApiCall) and 2 (Search) times, return an error result at once for a
\* status >= 400 and for any other exception, return the timed-out error
\* after the last attempt timed out, and for dictionary input execute
\* always returns a result with status "success" or "error": it neither
\* returns None nor raises.
C25_RetryAndResult ==
    /\ RetryContract
    /\ s_call.input \in Dictionaries => s_pc # "raised"
====
